---- MODULE Spec2Model ----
(***************************************************************************)
(* AlarmGenie: alarm repository (AlarmStorage), notification scheduling    *)
(* and listeners (NotificationService) and the dismissal session           *)
(* (DismissAlarmScreen), modelled as one state machine.                    *)
(*                                                                         *)
(* Time is the reading of Date.now(), kept at one-second granularity.  Two *)
(* reads with no Tick between them return the same value, except in        *)
(* generateDismissalCode, whose two reads in one object literal are given  *)
(* separately (the clock may advance between them).  Instant 0 is local    *)
(* midnight on a Sunday.                                                   *)
(***************************************************************************)
EXTENDS Integers, Sequences, FiniteSets, TLC

(***************************************************************************)
(* Bounds of the model.                                                    *)
(***************************************************************************)
MaxAlarms == 2          \* stored alarm records
MaxNow == 1             \* last clock reading of the repository view
MaxSessions == 1        \* dismissal sessions started in the repository view
Horizon == 5            \* seconds past the alarm's time that the listener view covers
MaxHandles == 3         \* schedule handles the platform hands out
MaxSubmits == 7         \* stored attempts up to which submissions are explored
MaxTimeoutReports == 2  \* runs of handleTimeout per dismissal session
MaxEvents == 3          \* notification events the platform delivers
MaxReadGap == 1         \* clock advance between two successive reads of Date.now()
MaxCalls == 2           \* storage calls started one await at a time

(***************************************************************************)
(* Program constants.                                                      *)
(***************************************************************************)
NoHandle == 0                 \* notificationId: null
AttemptLimit == 5             \* newAttempts > 5, newAttempts >= 5
NavigationTTL == 5            \* setTimeout(..., 5000)
MinDuration == 1               \* durationNum < 1
MaxDuration == 60              \* durationNum > 60
SecondsPerMinute == 60        \* alarmDuration * 60
DefaultDuration == 5          \* alarmData.duration || 5
DefaultTimeRemaining == 300   \* useState(300)
CodeLifetime == 600           \* Date.now() + (10 * 60 * 1000)
ToleranceTimesTwo == 3        \* diff <= 1.5, doubled to stay in the integers
SecondsPerHour == 3600
SecondsPerDay == 86400
ListenerPairs == 2            \* App.onNavigationReady and AlarmListScreen
CodeLength == 8               \* for (let i = 0; i < 8; i++), /^[A-Z0-9]{8}$/

Frequencies == {"once", "daily", "weekly"}
\* Texts of the duration field (maxLength 2) and of the label field.
Durations ==
    { <<"1">>, <<"6", "0">>, <<"0">>, <<"6", "1">>, <<>>, <<"-", "3">>,
      <<"5", ".">>, <<".", "5">>, <<" ", "7">>, <<"a", "b">> }
Labels == { <<>>, <<" ">>, <<"U", "p">> }
\* Alarm times: Sunday 00:00:00 of the first week and of the second.
AlarmTimes == {0, 7 * SecondsPerDay}

VARIABLES
    now,                 \* Date.now(), in seconds
    alarms,              \* AsyncStorage '@alarms': sequence of alarm records
    codes,               \* AsyncStorage '@dismissal_codes': alarm id -> code record
    ringtones,           \* AsyncStorage '@custom_ringtones': its keys (alarm ids)
    alert,               \* "Error" when the last operation of the list or create
                         \* screen ended in its catch block (Alert 'Error')
    scheduled,           \* schedules pending in the platform scheduler
    nextHandle,          \* next identifier the platform scheduler returns
    delivered,           \* alarm ids whose notification is shown in the tray
    navigationInFlight,  \* NotificationService.navigationInFlight (its keys)
    ttlTimers,           \* pending setTimeout deletions of in-flight markers
    awaiting,            \* listener handlers suspended in validateAlarmTiming
    events,              \* notification events delivered so far
    navigations,         \* log of navigation.navigate('DismissAlarm', ...) calls
    session,             \* the mounted DismissAlarmScreen, if any
    calls                \* AlarmStorage calls started one await at a time

vars == <<now, alarms, codes, ringtones, alert, scheduled, nextHandle, delivered,
          navigationInFlight, ttlTimers, awaiting, events, navigations,
          session, calls>>

(***************************************************************************)
(* Dates: the local-time getters of a JavaScript Date.                     *)
(***************************************************************************)
getHours(t) == (t \div SecondsPerHour) % 24
getMinutes(t) == (t \div SecondsPerMinute) % 60
getDay(t) == (t \div SecondsPerDay) % 7
Abs(x) == IF x < 0 THEN -x ELSE x

(***************************************************************************)
(* Text: a string is a sequence of one-character strings.                  *)
(***************************************************************************)
UpperOf(c) ==
    CASE c = "a" -> "A"
      [] c = "b" -> "B"
      [] c = "z" -> "Z"
      [] OTHER -> c
ToUpperCase(s) == [i \in 1..Len(s) |-> UpperOf(s[i])]
RECURSIVE TrimStart(_)
TrimStart(s) == IF s # <<>> /\ Head(s) = " " THEN TrimStart(Tail(s)) ELSE s
RECURSIVE TrimEnd(_)
TrimEnd(s) ==
    IF s # <<>> /\ s[Len(s)] = " " THEN TrimEnd(SubSeq(s, 1, Len(s) - 1)) ELSE s
Trim(s) == TrimEnd(TrimStart(s))

\* parseInt(text) without a radix, for texts that hold no "0x": leading white
\* space is skipped, a sign is read, then the longest run of decimal digits;
\* the result is NaN when that run is empty.
DigitValue(c) ==
    CASE c = "0" -> 0 [] c = "1" -> 1 [] c = "2" -> 2 [] c = "3" -> 3
      [] c = "4" -> 4 [] c = "5" -> 5 [] c = "6" -> 6 [] c = "7" -> 7
      [] c = "8" -> 8 [] c = "9" -> 9 [] OTHER -> -1
RECURSIVE LeadingDigits(_)
LeadingDigits(s) ==
    IF s # <<>> /\ DigitValue(Head(s)) >= 0
    THEN <<Head(s)>> \o LeadingDigits(Tail(s))
    ELSE <<>>
RECURSIVE DecimalValue(_)
DecimalValue(digits) ==
    IF digits = <<>> THEN 0
    ELSE 10 * DecimalValue(SubSeq(digits, 1, Len(digits) - 1))
            + DigitValue(digits[Len(digits)])
parseInt(text) ==
    LET s == TrimStart(text)
        signed == s # <<>> /\ Head(s) \in {"-", "+"}
        digits == LeadingDigits(IF signed THEN Tail(s) ELSE s)
    IN [isNaN |-> digits = <<>>,
        value |-> IF signed /\ Head(s) = "-" THEN -DecimalValue(digits)
                  ELSE DecimalValue(digits)]

\* Codes the generator is taken to return, and texts the user may type
\* (the input field holds at most 8 characters).
CodeA == <<"A", "B", "A", "B", "1", "2", "1", "2">>
CodeB == <<"B", "A", "B", "A", "2", "1", "2", "1">>
GeneratedCodes == {CodeA, CodeB}
UserInputs ==
    { CodeA,
      <<"a", "b", "a", "b", "1", "2", "1", "2">>,
      <<"Z", "Z", "Z", "Z", "9", "9", "9", "9">>,
      <<" ", "A", "B", "A", "B", "1", "2", "1">> }

(***************************************************************************)
(* Records.                                                                *)
(***************************************************************************)
NoAlarm ==
    [id |-> -1, time |-> 0, frequency |-> "none", duration |-> 0,
     isActive |-> FALSE, notificationId |-> NoHandle]
NoCode == [code |-> <<>>, timestamp |-> 0, expiresAt |-> 0]
\* The state of DismissAlarmScreen.  submitted records whether the text of
\* the latest submission equals the displayed code; elapsed counts the
\* callbacks of the countdown interval; timeoutReports counts the runs of
\* handleTimeout.
Unmounted ==
    [phase |-> "unmounted", alarmId |-> -1, alarm |-> NoAlarm,
     dismissalCodeData |-> NoCode, timeRemaining |-> DefaultTimeRemaining,
     timerOn |-> FALSE, audioOn |-> FALSE, vibrationOn |-> FALSE,
     attempts |-> 0, submitted |-> "none", elapsed |-> 0, timeoutReports |-> 0]

AlarmIds == {alarms[i].id : i \in 1..Len(alarms)}

\* Array.prototype.find: the first record with the id, or NoAlarm (undefined).
IndexOf(list, alarmId) ==
    IF \E i \in 1..Len(list) : list[i].id = alarmId
    THEN CHOOSE i \in 1..Len(list) :
            /\ list[i].id = alarmId
            /\ \A j \in 1..(i - 1) : list[j].id # alarmId
    ELSE 0
Find(list, alarmId) ==
    IF IndexOf(list, alarmId) = 0 THEN NoAlarm ELSE list[IndexOf(list, alarmId)]
\* Array.prototype.filter(alarm => alarm.id !== alarmId)
RECURSIVE Without(_, _)
Without(list, alarmId) ==
    IF list = <<>> THEN <<>>
    ELSE IF Head(list).id = alarmId THEN Without(Tail(list), alarmId)
    ELSE <<Head(list)>> \o Without(Tail(list), alarmId)

(***************************************************************************)
(* NotificationService.scheduleAlarm: the trigger handed to the platform.  *)
(***************************************************************************)
Trigger(alarm, t) ==
    CASE alarm.frequency = "once" ->
            [kind |-> "date",
             date |-> IF alarm.time <= t THEN alarm.time + SecondsPerDay
                      ELSE alarm.time,
             weekday |-> 0, hour |-> 0, minute |-> 0]
      [] alarm.frequency = "daily" ->
            [kind |-> "daily", date |-> 0, weekday |-> 0,
             hour |-> getHours(alarm.time), minute |-> getMinutes(alarm.time)]
      [] alarm.frequency = "weekly" ->
            [kind |-> "weekly", date |-> 0, weekday |-> getDay(alarm.time) + 1,
             hour |-> getHours(alarm.time), minute |-> getMinutes(alarm.time)]
      [] OTHER ->
            [kind |-> "immediate", date |-> 0, weekday |-> 0, hour |-> 0,
             minute |-> 0]

\* The schedule scheduleNotificationAsync registers, under a fresh handle.
\* lastFired is the platform's record of its latest firing (-1: none yet).
NewSchedule(alarm) ==
    [handle |-> nextHandle, alarmId |-> alarm.id, duration |-> alarm.duration,
     trigger |-> Trigger(alarm, now), lastFired |-> -1]
\* The platform's clock has reached the trigger of schedule s: the date of a
\* one-time trigger, or the hour and minute (and weekday) of a repeating one
\* on a day on which it has not fired yet.
Due(s, t) ==
    CASE s.trigger.kind = "date" -> s.trigger.date <= t
      [] s.trigger.kind = "daily" ->
            /\ getHours(t) = s.trigger.hour /\ getMinutes(t) = s.trigger.minute
            /\ (s.lastFired = -1 \/ t >= s.lastFired + SecondsPerDay)
      [] s.trigger.kind = "weekly" ->
            /\ getDay(t) + 1 = s.trigger.weekday
            /\ getHours(t) = s.trigger.hour /\ getMinutes(t) = s.trigger.minute
            /\ (s.lastFired = -1 \/ t >= s.lastFired + 7 * SecondsPerDay)
      [] OTHER -> TRUE
PendingHandles == {s.handle : s \in scheduled}
\* Notifications.cancelScheduledNotificationAsync, guarded by `if (notificationId)`.
Cancelled(pending, notificationId) ==
    IF notificationId # NoHandle
    THEN {s \in pending : s.handle # notificationId}
    ELSE pending

(***************************************************************************)
(* AlarmStorage.  A storage or platform call either succeeds or rejects.   *)
(* Each operation takes a `fault` input naming the one call of it that     *)
(* rejects ("none": every call succeeds).  loadAlarms and                  *)
(* loadDismissalCodes catch a failed read and return the empty value.      *)
(***************************************************************************)
loadAlarms(readOk) == IF readOk THEN alarms ELSE <<>>
EmptyCodes == [i \in {} |-> NoCode]
loadDismissalCodes(blob, readOk) == IF readOk THEN blob ELSE EmptyCodes

\* getAlarm: the record, or NoAlarm when absent or unreadable.
getAlarm(alarmId, readOk) == Find(loadAlarms(readOk), alarmId)

\* getDismissalCode: codes[alarmId] || null
getDismissalCode(alarmId, readOk) ==
    LET loaded == loadDismissalCodes(codes, readOk)
    IN IF alarmId \in DOMAIN loaded THEN loaded[alarmId] ELSE NoCode

\* The '@dismissal_codes' blob after a successful saveDismissalCode.
saveDismissalCode(alarmId, codeData, readOk) ==
    LET loaded == loadDismissalCodes(codes, readOk)
    IN [i \in DOMAIN loaded \cup {alarmId} |->
            IF i = alarmId
            THEN [code |-> codeData.code, timestamp |-> codeData.timestamp,
                  expiresAt |-> codeData.expiresAt, createdAt |-> now,
                  attempts |-> 0]
            ELSE loaded[i]]

\* The blob after removeDismissalCode, which swallows every error.
removeDismissalCode(blob, alarmId, readOk, writeOk) ==
    LET loaded == loadDismissalCodes(blob, readOk)
    IN IF writeOk
       THEN [i \in DOMAIN loaded \ {alarmId} |-> loaded[i]]
       ELSE blob

\* incrementCodeAttempts: the value returned and the blob afterwards.
incrementCodeAttempts(alarmId, readOk, writeOk) ==
    LET loaded == loadDismissalCodes(codes, readOk)
    IN IF alarmId \in DOMAIN loaded /\ writeOk
       THEN [returned |-> loaded[alarmId].attempts + 1,
             stored |-> [loaded EXCEPT ![alarmId].attempts = @ + 1]]
       ELSE [returned |-> 0, stored |-> codes]

\* A faulty map that merges isActive but drops notificationId from the updates.
UpdatedKeepsHandle(list, alarmId, isActive, notificationId) ==
    [i \in 1..Len(list) |->
        IF list[i].id = alarmId
        THEN [list[i] EXCEPT !.isActive = isActive]
        ELSE list[i]]

\* alarms.map(alarm => alarm.id === alarmId ? { ...alarm, ...updates } : alarm)
Updated(list, alarmId, isActive, notificationId) ==
    [i \in 1..Len(list) |->
        IF list[i].id = alarmId
        THEN [list[i] EXCEPT !.isActive = isActive,
                             !.notificationId = notificationId]
        ELSE list[i]]

\* '@alarms' after updateAlarm (it throws, leaving it, when the write fails).
updateAlarm(alarmId, isActive, notificationId, readOk, writeOk) ==
    IF writeOk
    THEN Updated(loadAlarms(readOk), alarmId, isActive, notificationId)
    ELSE alarms

\* setCustomRingtone stores the sound's uri under the alarm's id; only the
\* keys of the stored map are modelled.
setCustomRingtone(alarmId) == ringtones \cup {alarmId}

AddFaults == {"none", "read", "schedule", "write"}
\* addAlarm rethrows what scheduleAlarm and saveAlarms throw; loadAlarms
\* swallows a failed read.
addAlarmThrows(fault) == fault \in {"schedule", "write"}
addAlarm(data, fault) ==
    LET loaded == loadAlarms(fault # "read")
        newAlarm == [id |-> now, time |-> data.time, frequency |-> data.frequency,
                     duration |-> data.duration, isActive |-> TRUE,
                     notificationId |-> NoHandle]
    IN /\ Len(alarms) < MaxAlarms
       /\ nextHandle <= MaxHandles
       /\ IF fault = "schedule"
          THEN UNCHANGED <<scheduled, nextHandle, alarms>>
          ELSE /\ scheduled' = scheduled \cup {NewSchedule(newAlarm)}
               /\ nextHandle' = nextHandle + 1
               /\ alarms' = IF fault = "write"
                            THEN alarms
                            ELSE Append(loaded,
                                   [newAlarm EXCEPT !.notificationId = nextHandle])
       /\ UNCHANGED codes

ToggleFaults == {"none", "read", "platform", "write"}
\* toggleAlarm rethrows what scheduleAlarm, cancelAlarm and saveAlarms throw;
\* none of them is called when the alarm is not found.
toggleAlarmThrows(alarmId, fault) ==
    LET loaded == loadAlarms(fault # "read")
        alarmToToggle == Find(loaded, alarmId)
    IN /\ alarmToToggle # NoAlarm
       /\ \/ fault = "write"
          \/ /\ fault = "platform"
             /\ ~alarmToToggle.isActive \/ alarmToToggle.notificationId # NoHandle
\* A faulty toggleAlarm that schedules the alarm when turning it on but does
\* not store the handle in the record.
toggleAlarmLosesHandle(alarmId, fault) ==
    LET loaded == loadAlarms(fault # "read")
        i == IndexOf(loaded, alarmId)
        alarmToToggle == loaded[i]
    IN /\ UNCHANGED codes
       /\ IF i = 0
          THEN UNCHANGED <<scheduled, nextHandle, alarms>>
          ELSE IF ~alarmToToggle.isActive
          THEN /\ nextHandle <= MaxHandles
               /\ scheduled' = scheduled \cup
                      {NewSchedule([alarmToToggle EXCEPT !.isActive = TRUE])}
               /\ nextHandle' = nextHandle + 1
               /\ alarms' = [loaded EXCEPT ![i].isActive = TRUE]
          ELSE /\ scheduled' = Cancelled(scheduled, alarmToToggle.notificationId)
               /\ nextHandle' = nextHandle
               /\ alarms' = [loaded EXCEPT ![i].notificationId = NoHandle,
                                           ![i].isActive = FALSE]
\* A faulty toggleAlarm that swallows the scheduler's error when turning an
\* alarm on and stores the alarm as active with no handle.
toggleAlarmStoresUnscheduled(alarmId, fault) ==
    LET loaded == loadAlarms(fault # "read")
        i == IndexOf(loaded, alarmId)
        alarmToToggle == loaded[i]
        newActiveState == ~alarmToToggle.isActive
    IN /\ UNCHANGED codes
       /\ IF i = 0
          THEN UNCHANGED <<scheduled, nextHandle, alarms>>
          ELSE IF newActiveState
          THEN /\ nextHandle <= MaxHandles
               /\ IF fault = "platform"
                  THEN /\ UNCHANGED <<scheduled, nextHandle>>
                       /\ alarms' = [loaded EXCEPT ![i].isActive = TRUE]
                  ELSE /\ scheduled' = scheduled \cup
                            {NewSchedule([alarmToToggle EXCEPT !.isActive = TRUE])}
                       /\ nextHandle' = nextHandle + 1
                       /\ alarms' =
                            IF fault = "write" THEN alarms
                            ELSE [loaded EXCEPT ![i].notificationId = nextHandle,
                                                ![i].isActive = TRUE]
          ELSE IF fault = "platform" /\ alarmToToggle.notificationId # NoHandle
          THEN UNCHANGED <<scheduled, nextHandle, alarms>>
          ELSE /\ scheduled' = Cancelled(scheduled, alarmToToggle.notificationId)
               /\ nextHandle' = nextHandle
               /\ alarms' =
                    IF fault = "write" THEN alarms
                    ELSE [loaded EXCEPT ![i].notificationId = NoHandle,
                                        ![i].isActive = FALSE]

toggleAlarm(alarmId, fault) ==
    LET loaded == loadAlarms(fault # "read")
        i == IndexOf(loaded, alarmId)
        alarmToToggle == loaded[i]
        newActiveState == ~alarmToToggle.isActive
    IN /\ UNCHANGED codes
       /\ IF i = 0
          THEN UNCHANGED <<scheduled, nextHandle, alarms>>
          ELSE IF newActiveState
          THEN /\ nextHandle <= MaxHandles
               /\ IF fault = "platform"
                  THEN UNCHANGED <<scheduled, nextHandle, alarms>>
                  ELSE /\ scheduled' = scheduled \cup
                            {NewSchedule([alarmToToggle EXCEPT !.isActive = TRUE])}
                       /\ nextHandle' = nextHandle + 1
                       /\ alarms' =
                            IF fault = "write" THEN alarms
                            ELSE [loaded EXCEPT ![i].notificationId = nextHandle,
                                                ![i].isActive = TRUE]
          ELSE IF fault = "platform" /\ alarmToToggle.notificationId # NoHandle
          THEN UNCHANGED <<scheduled, nextHandle, alarms>>
          ELSE /\ scheduled' = Cancelled(scheduled, alarmToToggle.notificationId)
               /\ nextHandle' = nextHandle
               /\ alarms' =
                    IF fault = "write" THEN alarms
                    ELSE [loaded EXCEPT ![i].notificationId = NoHandle,
                                        ![i].isActive = FALSE]

DeleteFaults == {"none", "read", "cancel", "codesRead", "codesWrite", "write"}
\* deleteAlarm rethrows what cancelAlarm and saveAlarms throw.
deleteAlarmThrows(alarmId, fault) ==
    LET alarmToDelete == Find(loadAlarms(fault # "read"), alarmId)
    IN \/ fault = "cancel" /\ alarmToDelete.notificationId # NoHandle
       \/ fault = "write"
deleteAlarm(alarmId, fault) ==
    LET loaded == loadAlarms(fault # "read")
        alarmToDelete == Find(loaded, alarmId)
    IN /\ UNCHANGED nextHandle
       /\ IF alarmToDelete.notificationId # NoHandle /\ fault = "cancel"
          THEN UNCHANGED <<scheduled, codes, alarms>>
          ELSE /\ scheduled' = Cancelled(scheduled, alarmToDelete.notificationId)
               /\ codes' = removeDismissalCode(codes, alarmId, fault # "codesRead",
                                               fault # "codesWrite")
               /\ alarms' = IF fault = "write" THEN alarms
                            ELSE Without(loaded, alarmId)

(***************************************************************************)
(* NotificationService: timing validation and the two listeners.           *)
(***************************************************************************)
minutesOfDay(t) == getHours(t) * 60 + getMinutes(t)

\* A faulty validateAlarmTiming that tests `!alarm` only, not `!alarm.isActive`.
validateAlarmTimingIgnoresActive(alarmId, t, readOk) ==
    LET alarm == getAlarm(alarmId, readOk)
        diff == Abs(minutesOfDay(t) - minutesOfDay(alarm.time))
    IN IF alarm = NoAlarm THEN FALSE
       ELSE CASE alarm.frequency = "once" -> TRUE
              [] alarm.frequency = "daily" -> 2 * diff <= ToleranceTimesTwo
              [] alarm.frequency = "weekly" ->
                    getDay(t) = getDay(alarm.time) /\ 2 * diff <= ToleranceTimesTwo
              [] OTHER -> FALSE

\* A faulty validateAlarmTiming whose catch block answers true.
validateAlarmTimingFailsOpen(alarmId, t, readOk) ==
    LET alarm == getAlarm(alarmId, TRUE)
        diff == Abs(minutesOfDay(t) - minutesOfDay(alarm.time))
    IN IF ~readOk THEN TRUE
       ELSE IF alarm = NoAlarm \/ ~alarm.isActive THEN FALSE
       ELSE CASE alarm.frequency = "once" -> TRUE
              [] alarm.frequency = "daily" -> 2 * diff <= ToleranceTimesTwo
              [] alarm.frequency = "weekly" ->
                    getDay(t) = getDay(alarm.time) /\ 2 * diff <= ToleranceTimesTwo
              [] OTHER -> FALSE

\* A faulty validateAlarmTiming that compares the weekday of now with the
\* weekday number of the trigger (getDay() + 1) instead of getDay().
validateAlarmTimingWeekdayOfTrigger(alarmId, t, readOk) ==
    LET alarm == getAlarm(alarmId, readOk)
        diff == Abs(minutesOfDay(t) - minutesOfDay(alarm.time))
    IN IF alarm = NoAlarm \/ ~alarm.isActive THEN FALSE
       ELSE CASE alarm.frequency = "once" -> TRUE
              [] alarm.frequency = "daily" -> 2 * diff <= ToleranceTimesTwo
              [] alarm.frequency = "weekly" ->
                    getDay(t) = getDay(alarm.time) + 1 /\ 2 * diff <= ToleranceTimesTwo
              [] OTHER -> FALSE

\* validateAlarmTiming at clock reading t; a failed read makes getAlarm
\* return nothing, and any error inside is caught and answers false.
validateAlarmTiming(alarmId, t, readOk) ==
    LET alarm == getAlarm(alarmId, readOk)
        diff == Abs(minutesOfDay(t) - minutesOfDay(alarm.time))
    IN IF alarm = NoAlarm \/ ~alarm.isActive THEN FALSE
       ELSE CASE alarm.frequency = "once" -> TRUE
              [] alarm.frequency = "daily" -> 2 * diff <= ToleranceTimesTwo
              [] alarm.frequency = "weekly" ->
                    getDay(t) = getDay(alarm.time) /\ 2 * diff <= ToleranceTimesTwo
              [] OTHER -> FALSE

\* A faulty listener callback that marks the id in flight without arming the
\* TTL timer.
EnterHandlerNoTimer(st, alarmId, via) ==
    IF alarmId \in st.inFlight
    THEN st
    ELSE [inFlight |-> st.inFlight \cup {alarmId},
          timers |-> st.timers,
          awaiting |-> Append(st.awaiting, [alarmId |-> alarmId, via |-> via])]

\* One listener callback up to its `await`: it returns when the id is marked
\* in flight; otherwise it marks the id, arms the TTL timer and suspends in
\* validateAlarmTiming.
EnterHandler(st, alarmId, via) ==
    IF alarmId \in st.inFlight
    THEN st
    ELSE [inFlight |-> st.inFlight \cup {alarmId},
          timers |-> st.timers \cup
                        {[alarmId |-> alarmId, due |-> now + NavigationTTL]},
          awaiting |-> Append(st.awaiting, [alarmId |-> alarmId, via |-> via])]

\* An event reaches the callback of every registered listener pair, in turn.
RECURSIVE Dispatch(_, _, _, _)
Dispatch(st, alarmId, via, pairs) ==
    IF pairs = 0 THEN st
    ELSE Dispatch(EnterHandler(st, alarmId, via), alarmId, via, pairs - 1)

ListenerState ==
    [inFlight |-> navigationInFlight, timers |-> ttlTimers, awaiting |-> awaiting]

Notify(alarmId, via) ==
    LET st == Dispatch(ListenerState, alarmId, via, ListenerPairs)
    IN /\ events < MaxEvents
       /\ events' = events + 1
       /\ navigationInFlight' = st.inFlight
       /\ ttlTimers' = st.timers
       /\ awaiting' = st.awaiting

\* The platform fires a pending schedule (on time or late) while the app is
\* in the foreground: addNotificationReceivedListener's callback.
NotificationReceived(s) ==
    /\ s \in scheduled
    /\ Due(s, now)
    /\ scheduled' = IF s.trigger.kind = "date"
                    THEN scheduled \ {s}
                    ELSE (scheduled \ {s}) \cup {[s EXCEPT !.lastFired = now]}
    /\ delivered' = delivered \cup {s.alarmId}
    /\ Notify(s.alarmId, "received")
    /\ UNCHANGED <<now, calls, ringtones, alert,
                   alarms, codes, nextHandle, navigations, session>>

\* The user taps a notification shown in the tray:
\* addNotificationResponseReceivedListener's callback.
NotificationResponse(alarmId) ==
    /\ alarmId \in delivered
    /\ delivered' = delivered \ {alarmId}
    /\ Notify(alarmId, "response")
    /\ UNCHANGED <<now, calls, ringtones, alert,
                   alarms, codes, scheduled, nextHandle, navigations, session>>

\* navigation.navigate('DismissAlarm', { alarmId, duration }): mounts the
\* screen when it is not mounted.  Every call is logged
\* with the screen it found.
Navigate(alarmId, via) ==
    /\ navigations' =
          Append(navigations,
                 [alarmId |-> alarmId, at |-> now, via |-> via,
                  found |-> session.phase, foundId |-> session.alarmId])
    /\ session' =
          IF session.phase = "unmounted"
          THEN [Unmounted EXCEPT !.phase = "initializing", !.alarmId = alarmId]
          ELSE session

\* A suspended callback resumes with validateAlarmTiming's answer.
FinishValidation(k, readOk) ==
    /\ k \in 1..Len(awaiting)
    /\ awaiting' = SubSeq(awaiting, 1, k - 1) \o SubSeq(awaiting, k + 1, Len(awaiting))
    /\ IF validateAlarmTiming(awaiting[k].alarmId, now, readOk)
       THEN /\ Navigate(awaiting[k].alarmId, awaiting[k].via)
            /\ UNCHANGED navigationInFlight
       ELSE /\ navigationInFlight' = navigationInFlight \ {awaiting[k].alarmId}
            /\ UNCHANGED <<navigations, session>>
    /\ UNCHANGED <<now, calls, ringtones, alert,
                   alarms, codes, scheduled, nextHandle, delivered, ttlTimers,
                   events>>

\* The TTL timer of a marker fires.
MarkerExpires(timer) ==
    /\ timer \in ttlTimers
    /\ timer.due <= now
    /\ ttlTimers' = ttlTimers \ {timer}
    /\ navigationInFlight' = navigationInFlight \ {timer.alarmId}
    /\ UNCHANGED <<now, calls, ringtones, alert,
                   alarms, codes, scheduled, nextHandle, delivered, awaiting,
                   events, navigations, session>>

(***************************************************************************)
(* DismissAlarmScreen: the dismissal session.                              *)
(*   phase "initializing": mounted, initializeAlarmDismissal not yet run   *)
(*         "ringing":      sound, vibration and countdown started          *)
(*         "success":      the 'Alarm Dismissed' alert is showing          *)
(*         "timedout":     the 'Alarm Timeout' alert is showing            *)
(*         "error":        the 'Failed to load alarm' alert was raised     *)
(***************************************************************************)
isCodeExpired(codeData, t) == t > codeData.expiresAt

\* stopAlarm on a session record: when pausing or unloading the sound
\* throws, the catch block skips Vibration.cancel().
stopAlarm(s, stopOk) ==
    IF s.audioOn /\ ~stopOk
    THEN s
    ELSE [s EXCEPT !.audioOn = FALSE, !.vibrationOn = FALSE]

(***************************************************************************)
(* MistralService: the local generator, the format validator and the       *)
(* backend path with its fallback.                                         *)
(***************************************************************************)
\* const characters = 'ABCDEFGHIJKLMNOPQRSTUVWXYZ0123456789'
Characters ==
    <<"A", "B", "C", "D", "E", "F", "G", "H", "I", "J", "K", "L", "M", "N", "O",
      "P", "Q", "R", "S", "T", "U", "V", "W", "X", "Y", "Z", "0", "1", "2", "3",
      "4", "5", "6", "7", "8", "9">>
\* String.prototype.charAt: the character at a zero-based index, or the empty
\* string when the index is out of range.
charAt(text, index) ==
    IF index >= 0 /\ index < Len(text) THEN <<text[index + 1]>> ELSE <<>>
\* A faulty generateSecureCode that does not reduce the sum of the two indices
\* modulo characters.length.
RECURSIVE generateSecureCodeNoWrap(_, _)
generateSecureCodeNoWrap(entropy, randomIndices) ==
    IF randomIndices = <<>> THEN <<>>
    ELSE LET i == Len(randomIndices) - 1
             seedIndex == (entropy[(i % Len(entropy)) + 1] + i) % Len(Characters)
             finalIndex == seedIndex + randomIndices[i + 1]
         IN generateSecureCodeNoWrap(entropy, SubSeq(randomIndices, 1, i))
               \o charAt(Characters, finalIndex)
\* generateSecureCode: entropy is the sequence of character codes of
\* timestamp + random1 + random2, randomIndices the successive values of
\* Math.floor(Math.random() * characters.length), one per iteration.
RECURSIVE generateSecureCode(_, _)
generateSecureCode(entropy, randomIndices) ==
    IF randomIndices = <<>> THEN <<>>
    ELSE LET i == Len(randomIndices) - 1
             seedIndex == (entropy[(i % Len(entropy)) + 1] + i) % Len(Characters)
             finalIndex == (seedIndex + randomIndices[i + 1]) % Len(Characters)
         IN generateSecureCode(entropy, SubSeq(randomIndices, 1, i))
               \o charAt(Characters, finalIndex)
\* isValidCode: /^[A-Z0-9]{8}$/.test(code)
isValidCode(code) ==
    /\ Len(code) = CodeLength
    /\ \A i \in 1..Len(code) : \E k \in 1..Len(Characters) : code[i] = Characters[k]
\* generateCodeWithBackend: the parsed response when the request succeeded
\* and the response passes the format check, the local record otherwise.
\* An absent code or expiresAt is the empty string or 0 (both falsy).
generateCodeWithBackend(response, local) ==
    IF response.ok /\ response.code # <<>> /\ response.expiresAt # 0
          /\ isValidCode(response.code)
    THEN [code |-> response.code, expiresAt |-> response.expiresAt]
    ELSE local

\* MistralService.generateDismissalCode: the record it resolves to.  The object
\* literal reads the clock twice, once for timestamp and once more for
\* expiresAt; `later` is the second reading.
generateDismissalCode(code, later) ==
    [code |-> code, timestamp |-> now, expiresAt |-> later + CodeLifetime]

InitFaults == {"none", "alarmRead", "codesRead", "generate", "codesWrite", "audio"}
\* A faulty initializeAlarmDismissal in which a failure to start the audio
\* reaches the catch block: the error is shown and nothing else is started.
initializeAlarmDismissalAudioFatal(generated, fault) ==
    LET alarmData == getAlarm(session.alarmId, fault # "alarmRead")
        loaded == IF alarmData = NoAlarm THEN session
                  ELSE [session EXCEPT
                          !.alarm = alarmData,
                          !.timeRemaining =
                              (IF alarmData.duration = 0 THEN DefaultDuration
                               ELSE alarmData.duration) * SecondsPerMinute]
        existing == getDismissalCode(session.alarmId, fault # "codesRead")
        fresh == existing = NoCode \/ isCodeExpired(existing, now)
        codeData == IF fresh THEN generated ELSE existing
    IN /\ session.phase = "initializing"
       /\ IF fresh /\ fault \in {"generate", "codesWrite"}
          THEN /\ session' = [loaded EXCEPT !.phase = "error"]
               /\ UNCHANGED codes
          ELSE /\ codes' = IF fresh
                           THEN saveDismissalCode(session.alarmId, codeData,
                                                  fault # "codesRead")
                           ELSE codes
               /\ session' = IF fault = "audio"
                             THEN [loaded EXCEPT !.phase = "error",
                                                 !.dismissalCodeData = codeData]
                             ELSE [loaded EXCEPT !.phase = "ringing",
                                                 !.dismissalCodeData = codeData,
                                                 !.attempts = IF fresh THEN 0
                                                              ELSE existing.attempts,
                                                 !.audioOn = TRUE,
                                                 !.vibrationOn = TRUE,
                                                 !.timerOn = TRUE]
       /\ UNCHANGED <<now, calls, ringtones, alert, alarms, scheduled, nextHandle, delivered,
                      navigationInFlight, ttlTimers, awaiting, events, navigations>>

initializeAlarmDismissal(generated, fault) ==
    LET alarmData == getAlarm(session.alarmId, fault # "alarmRead")
        loaded == IF alarmData = NoAlarm THEN session
                  ELSE [session EXCEPT
                          !.alarm = alarmData,
                          !.timeRemaining =
                              (IF alarmData.duration = 0 THEN DefaultDuration
                               ELSE alarmData.duration) * SecondsPerMinute]
        existing == getDismissalCode(session.alarmId, fault # "codesRead")
        fresh == existing = NoCode \/ isCodeExpired(existing, now)
        codeData == IF fresh THEN generated ELSE existing
    IN /\ session.phase = "initializing"
       /\ IF fresh /\ fault \in {"generate", "codesWrite"}
          THEN /\ session' = [loaded EXCEPT !.phase = "error"]
               /\ UNCHANGED codes
          ELSE /\ codes' = IF fresh
                           THEN saveDismissalCode(session.alarmId, codeData,
                                                  fault # "codesRead")
                           ELSE codes
               /\ session' = [loaded EXCEPT !.phase = "ringing",
                                            !.dismissalCodeData = codeData,
                                            !.attempts = IF fresh THEN 0
                                                         ELSE existing.attempts,
                                            !.audioOn = (fault # "audio"),
                                            !.vibrationOn = TRUE,
                                            !.timerOn = TRUE]
       /\ UNCHANGED <<now, calls, ringtones, alert, alarms, scheduled, nextHandle, delivered,
                      navigationInFlight, ttlTimers, awaiting, events, navigations>>

\* The branch of handleSubmit taken on a matching code, from the session
\* record s and the code blob left by incrementCodeAttempts.
SubmitFaults ==
    {"none", "attemptsRead", "attemptsWrite", "stop", "removeWrite", "cancel",
     "alarmsRead", "alarmsWrite"}
CorrectCode(s, blob, fault) ==
    LET stopped == stopAlarm(s, fault # "stop")
        once == s.alarm # NoAlarm /\ s.alarm.frequency = "once"
    IN /\ codes' = removeDismissalCode(blob, s.alarmId, TRUE, fault # "removeWrite")
       /\ IF once /\ s.alarm.notificationId # NoHandle /\ fault = "cancel"
          THEN /\ session' = stopped
               /\ UNCHANGED <<scheduled, alarms>>
          ELSE /\ scheduled' = IF once
                               THEN Cancelled(scheduled, s.alarm.notificationId)
                               ELSE scheduled
               /\ alarms' = IF once
                            THEN updateAlarm(s.alarmId, FALSE, NoHandle,
                                             fault # "alarmsRead",
                                             fault # "alarmsWrite")
                            ELSE alarms
               /\ session' = IF once /\ fault = "alarmsWrite"
                             THEN stopped
                             ELSE [stopped EXCEPT !.phase = "success"]

\* A faulty handleSubmit that ends the session when the attempts run out.
handleSubmitFailsOnAttempts(userInput, fault) ==
    LET inc == incrementCodeAttempts(session.alarmId, fault # "attemptsRead",
                                     fault # "attemptsWrite")
        newAttempts == inc.returned
        matches == /\ session.dismissalCodeData # NoCode
                   /\ ToUpperCase(Trim(userInput)) = session.dismissalCodeData.code
        s == [session EXCEPT !.attempts = newAttempts,
                             !.submitted = IF matches THEN "match" ELSE "mismatch"]
    IN /\ session.phase \in {"ringing", "error"}
       /\ newAttempts <= MaxSubmits
       /\ IF newAttempts >= AttemptLimit \/ session.dismissalCodeData = NoCode \/ ~matches
          THEN /\ codes' = inc.stored
               /\ session' = IF newAttempts >= AttemptLimit
                             THEN [stopAlarm(s, TRUE) EXCEPT !.phase = "timedout",
                                                             !.timerOn = FALSE]
                             ELSE s
               /\ UNCHANGED <<scheduled, alarms>>
          ELSE CorrectCode(s, inc.stored, fault)
       /\ UNCHANGED <<now, calls, ringtones, alert,
                      nextHandle, delivered, navigationInFlight, ttlTimers,
                      awaiting, events, navigations>>

handleSubmit(userInput, fault) ==
    LET inc == incrementCodeAttempts(session.alarmId, fault # "attemptsRead",
                                     fault # "attemptsWrite")
        newAttempts == inc.returned
        matches == /\ session.dismissalCodeData # NoCode
                   /\ ToUpperCase(Trim(userInput)) = session.dismissalCodeData.code
        s == [session EXCEPT !.attempts = newAttempts,
                             !.submitted = IF matches THEN "match" ELSE "mismatch"]
    IN /\ session.phase \in {"ringing", "error"}
       /\ newAttempts <= MaxSubmits
       /\ IF newAttempts > AttemptLimit
          THEN \* 'Maximum Attempts Exceeded': return before any comparison
               /\ codes' = inc.stored
               /\ session' = s
               /\ UNCHANGED <<scheduled, alarms>>
          ELSE IF session.dismissalCodeData = NoCode
          THEN \* dismissalCodeData is null: reading .code throws
               /\ codes' = inc.stored
               /\ session' = s
               /\ UNCHANGED <<scheduled, alarms>>
          ELSE IF matches
          THEN CorrectCode(s, inc.stored, fault)
          ELSE /\ codes' = inc.stored
               /\ session' = s
               /\ UNCHANGED <<scheduled, alarms>>
       /\ UNCHANGED <<now, calls, ringtones, alert,
                      nextHandle, delivered, navigationInFlight, ttlTimers,
                      awaiting, events, navigations>>

\* The 'Generate New Code' button.
RegenerateFaults == {"none", "generate", "codesRead", "codesWrite"}
\* A faulty regenerateCode that leaves out setAttempts(0).
regenerateCodeKeepsAttempts(generated, fault) ==
    /\ session.phase \in {"ringing", "error"}
    /\ IF fault \in {"generate", "codesWrite"}
       THEN UNCHANGED <<codes, session>>
       ELSE /\ codes' = saveDismissalCode(session.alarmId, generated,
                                          fault # "codesRead")
            /\ session' = [session EXCEPT !.dismissalCodeData = generated]
    /\ UNCHANGED <<now, calls, ringtones, alert, alarms, scheduled, nextHandle, delivered,
                   navigationInFlight, ttlTimers, awaiting, events, navigations>>

regenerateCode(generated, fault) ==
    LET newCodeData == generated
    IN /\ session.phase \in {"ringing", "error"}
       /\ IF fault \in {"generate", "codesWrite"}
          THEN UNCHANGED <<codes, session>>
          ELSE /\ codes' = saveDismissalCode(session.alarmId, newCodeData,
                                             fault # "codesRead")
               /\ session' = [session EXCEPT !.dismissalCodeData = newCodeData,
                                             !.attempts = 0]
       /\ UNCHANGED <<now, calls, ringtones, alert, alarms, scheduled, nextHandle, delivered,
                      navigationInFlight, ttlTimers, awaiting, events, navigations>>

\* handleTimeout: stopAlarm and the 'Alarm Timeout' alert.
handleTimeout(s, stopOk) ==
    [stopAlarm(s, stopOk) EXCEPT
        !.phase = IF s.phase = "ringing" THEN "timedout" ELSE s.phase,
        !.timeoutReports = @ + 1]

\* A faulty interval callback that tests `prev <= 2`.
CountDownEarly(s, stopOk) ==
    IF s.timeRemaining <= 2
    THEN [handleTimeout(s, stopOk) EXCEPT !.timeRemaining = 0, !.elapsed = @ + 1]
    ELSE [s EXCEPT !.timeRemaining = @ - 1, !.elapsed = @ + 1]

\* The setInterval callback of startTimer.
CountDown(s, stopOk) ==
    IF s.timeRemaining <= 1
    THEN [handleTimeout(s, stopOk) EXCEPT !.timeRemaining = 0, !.elapsed = @ + 1]
    ELSE [s EXCEPT !.timeRemaining = @ - 1, !.elapsed = @ + 1]

\* One second passes: the clock advances and the countdown interval, when it
\* is running, calls back.  Callbacks that are due now run first.
Tick(stopOk) ==
    /\ awaiting = <<>>
    /\ \A timer \in ttlTimers : timer.due > now
    /\ session.phase # "initializing"
    /\ session.timeoutReports < MaxTimeoutReports
    /\ now' = now + 1
    /\ session' = IF session.timerOn THEN CountDown(session, stopOk) ELSE session
    /\ UNCHANGED <<alarms, codes, calls, ringtones, alert, scheduled, nextHandle, delivered,
                   navigationInFlight, ttlTimers, awaiting, events, navigations>>

\* OK on the 'Alarm Dismissed' alert: navigate('AlarmList') unmounts the
\* screen, whose cleanup clears the interval.
DismissedOk ==
    /\ session.phase = "success"
    /\ session' = Unmounted
    /\ UNCHANGED <<now, calls, ringtones, alert,
                   alarms, codes, scheduled, nextHandle, delivered,
                   navigationInFlight, ttlTimers, awaiting, events, navigations>>

\* OK on the 'Alarm Timeout' alert: removeDismissalCode, then navigate('AlarmList').
TimeoutOk(writeOk) ==
    /\ session.timeoutReports > 0
    /\ codes' = removeDismissalCode(codes, session.alarmId, TRUE, writeOk)
    /\ session' = Unmounted
    /\ UNCHANGED <<now, calls, ringtones, alert, alarms, scheduled, nextHandle, delivered,
                   navigationInFlight, ttlTimers, awaiting, events, navigations>>

(***************************************************************************)
(* The screens that call the repository: CreateAlarmScreen.saveAlarm and   *)
(* AlarmListScreen's switch and delete button.  They are reachable only    *)
(* while the dismissal screen is not on top.                               *)
(***************************************************************************)
\* A faulty validateForm whose upper limit is 61.
validateFormAllows61(data) ==
    LET durationNum == parseInt(data.duration)
    IN /\ Trim(data.label) # <<>>
       /\ ~(durationNum.isNaN \/ durationNum.value < 1 \/ durationNum.value > 61)

validateForm(data) ==
    LET durationNum == parseInt(data.duration)
    IN /\ Trim(data.label) # <<>>
       /\ ~(durationNum.isNaN \/ durationNum.value < MinDuration
              \/ durationNum.value > MaxDuration)

saveAlarm(data, fault) ==
    LET alarmData == [time |-> data.time, frequency |-> data.frequency,
                      duration |-> parseInt(data.duration).value]
    IN /\ session.phase = "unmounted"
       /\ IF validateForm(data)
          THEN /\ addAlarm(alarmData, fault)
               /\ ringtones' = IF ~addAlarmThrows(fault) /\ data.customRingtone
                               THEN setCustomRingtone(now)
                               ELSE ringtones
               /\ alert' = IF addAlarmThrows(fault) THEN "Error" ELSE "none"
          ELSE /\ alert' = "Error"
               /\ UNCHANGED <<alarms, codes, scheduled, nextHandle, ringtones>>
       /\ UNCHANGED <<now, calls, delivered, navigationInFlight, ttlTimers, awaiting,
                      events, navigations, session>>

SwitchAlarm(alarmId, fault) ==
    /\ session.phase = "unmounted"
    /\ alarmId \in AlarmIds
    /\ toggleAlarm(alarmId, fault)
    /\ alert' = IF toggleAlarmThrows(alarmId, fault) THEN "Error" ELSE "none"
    /\ UNCHANGED <<now, calls, ringtones, delivered, navigationInFlight, ttlTimers, awaiting,
                   events, navigations, session>>

PressDelete(alarmId, fault) ==
    /\ session.phase = "unmounted"
    /\ alarmId \in AlarmIds
    /\ deleteAlarm(alarmId, fault)
    /\ alert' = IF deleteAlarmThrows(alarmId, fault) THEN "Error" ELSE "none"
    /\ UNCHANGED <<now, calls, ringtones, delivered, navigationInFlight, ttlTimers, awaiting,
                   events, navigations, session>>

\* The form of CreateAlarmScreen: label and duration are the texts of their
\* fields, customRingtone tells whether a sound file was picked for the alarm.
AlarmData == [time : AlarmTimes, frequency : Frequencies, duration : Durations,
              label : Labels, customRingtone : BOOLEAN]
\* Forms for midnight of the first Sunday, filled in with a label and a
\* duration of one minute; the plain ones have no custom ringtone.
OneMinuteForms ==
    {data \in AlarmData :
        data.time = 0 /\ data.label = <<"U", "p">> /\ data.duration = <<"1">>}
PlainForms == {data \in OneMinuteForms : ~data.customRingtone}
\* Forms of a daily alarm with every text of the label and duration fields.
DailyForms ==
    {data \in AlarmData :
        data.time = 0 /\ data.frequency = "daily" /\ ~data.customRingtone}

\* A firing that passes validation with no marker in the way: the listener's
\* callback and its resumption taken as one step.
AlarmRings(alarmId) ==
    /\ validateAlarmTiming(alarmId, now, TRUE)
    /\ Len(navigations) < MaxSessions
    /\ Navigate(alarmId, "received")
    /\ UNCHANGED <<now, calls, ringtones, alert,
                   alarms, codes, scheduled, nextHandle, delivered,
                   navigationInFlight, ttlTimers, awaiting, events>>

Init ==
    /\ now = 0
    /\ alarms = <<>>
    /\ codes = EmptyCodes
    /\ scheduled = {}
    /\ nextHandle = 1
    /\ ringtones = {}
    /\ alert = "none"
    /\ calls = <<>>
    /\ delivered = {}
    /\ navigationInFlight = {}
    /\ ttlTimers = {}
    /\ awaiting = <<>>
    /\ events = 0
    /\ navigations = <<>>
    /\ session = Unmounted

(***************************************************************************)
(* The whole application.                                                  *)
(***************************************************************************)
Next ==
    \/ \E data \in AlarmData, fault \in AddFaults : saveAlarm(data, fault)
    \/ \E alarmId \in AlarmIds, fault \in ToggleFaults : SwitchAlarm(alarmId, fault)
    \/ \E alarmId \in AlarmIds, fault \in DeleteFaults : PressDelete(alarmId, fault)
    \/ \E s \in scheduled : NotificationReceived(s)
    \/ \E alarmId \in delivered : NotificationResponse(alarmId)
    \/ \E k \in 1..Len(awaiting), readOk \in BOOLEAN : FinishValidation(k, readOk)
    \/ \E timer \in ttlTimers : MarkerExpires(timer)
    \/ \E generated \in GeneratedCodes, fault \in InitFaults :
          initializeAlarmDismissal(generateDismissalCode(generated, now), fault)
    \/ \E userInput \in UserInputs, fault \in SubmitFaults :
          handleSubmit(userInput, fault)
    \/ \E generated \in GeneratedCodes, later \in now..(now + MaxReadGap),
          fault \in RegenerateFaults :
          regenerateCode(generateDismissalCode(generated, later), fault)
    \/ \E stopOk \in BOOLEAN : Tick(stopOk)
    \/ DismissedOk
    \/ \E writeOk \in BOOLEAN : TimeoutOk(writeOk)

Spec == Init /\ [][Next]_vars

(***************************************************************************)
(* The repository view: the screens that change '@alarms', and dismissal   *)
(* sessions that end by a code, over clock readings 0..MaxNow.  At most    *)
(* MaxSessions sessions start, each for an alarm that passes validation.   *)
(***************************************************************************)
NextRepo ==
    \/ \E data \in PlainForms, fault \in AddFaults : saveAlarm(data, fault)
    \/ \E alarmId \in AlarmIds, fault \in ToggleFaults : SwitchAlarm(alarmId, fault)
    \/ \E alarmId \in AlarmIds, fault \in DeleteFaults : PressDelete(alarmId, fault)
    \/ \E alarmId \in AlarmIds : AlarmRings(alarmId)
    \/ \E generated \in GeneratedCodes, fault \in InitFaults :
          initializeAlarmDismissal(generateDismissalCode(generated, now), fault)
    \/ \E fault \in SubmitFaults : handleSubmit(CodeA, fault)
    \/ now < MaxNow /\ Tick(TRUE)
    \/ DismissedOk

SpecRepo == Init /\ [][NextRepo]_vars

(***************************************************************************)
(* The listener view.  One alarm was stored and scheduled in the first     *)
(* week (at clock reading 0, hence its id) for Sunday 00:00:00; the view   *)
(* runs from NavigationTTL seconds before Sunday 00:00:00 of the second    *)
(* week to Horizon seconds after it.  The notification of a repeating      *)
(* alarm's earlier firing may still be in the tray.                        *)
(***************************************************************************)
SecondWeek == 7 * SecondsPerDay
StoredAlarm(frequency) ==
    [id |-> 0, time |-> IF frequency = "once" THEN SecondWeek ELSE 0,
     frequency |-> frequency, duration |-> 1, isActive |-> TRUE,
     notificationId |-> 1]
StoredSchedule(frequency) ==
    [handle |-> 1, alarmId |-> 0, duration |-> 1,
     trigger |-> Trigger(StoredAlarm(frequency), 0),
     lastFired |-> IF frequency = "once" THEN -1 ELSE 0]

InitListen ==
    /\ now = SecondWeek - NavigationTTL
    /\ \E frequency \in Frequencies :
          /\ alarms = <<StoredAlarm(frequency)>>
          /\ scheduled = {StoredSchedule(frequency)}
          /\ delivered \in (IF frequency = "once" THEN {{}} ELSE {{}, {0}})
    /\ codes = EmptyCodes
    /\ nextHandle = 2
    /\ ringtones = {}
    /\ alert = "none"
    /\ calls = <<>>
    /\ navigationInFlight = {}
    /\ ttlTimers = {}
    /\ awaiting = <<>>
    /\ events = 0
    /\ navigations = <<>>
    /\ session = Unmounted

NextListen ==
    \/ \E alarmId \in AlarmIds : SwitchAlarm(alarmId, "none")
    \/ \E alarmId \in AlarmIds : PressDelete(alarmId, "none")
    \/ \E s \in scheduled : NotificationReceived(s)
    \/ \E alarmId \in delivered : NotificationResponse(alarmId)
    \/ \E k \in 1..Len(awaiting) : FinishValidation(k, TRUE)
    \/ \E timer \in ttlTimers : MarkerExpires(timer)
    \/ initializeAlarmDismissal(generateDismissalCode(CodeA, now), "none")
    \/ now < SecondWeek + Horizon /\ Tick(TRUE)

SpecListen == InitListen /\ [][NextListen]_vars

(***************************************************************************)
(* The session view.  The stored alarm has just fired at its time, the     *)
(* received listener has validated it and navigated to the dismissal       *)
(* screen; the view follows that one session to its end.                   *)
(***************************************************************************)
InitSession ==
    /\ now = SecondWeek
    /\ \E frequency \in Frequencies :
          /\ alarms = <<StoredAlarm(frequency)>>
          /\ scheduled = IF frequency = "once" THEN {}
                         ELSE {[StoredSchedule(frequency) EXCEPT !.lastFired = now]}
    /\ delivered = {0}
    /\ codes = EmptyCodes
    /\ nextHandle = 2
    /\ ringtones = {}
    /\ alert = "none"
    /\ calls = <<>>
    /\ navigationInFlight = {0}
    /\ ttlTimers = {[alarmId |-> 0, due |-> now + NavigationTTL]}
    /\ awaiting = <<>>
    /\ events = 1
    /\ navigations = <<[alarmId |-> 0, at |-> now, via |-> "received",
                        found |-> "unmounted", foundId |-> -1]>>
    /\ session = [Unmounted EXCEPT !.phase = "initializing", !.alarmId = 0]

NextSession ==
    \/ \E generated \in GeneratedCodes, fault \in InitFaults :
          initializeAlarmDismissal(generateDismissalCode(generated, now), fault)
    \/ \E userInput \in UserInputs, fault \in SubmitFaults :
          handleSubmit(userInput, fault)
    \/ \E timer \in ttlTimers : MarkerExpires(timer)
    \/ \E stopOk \in BOOLEAN :
          (session.timerOn \/ now < SecondWeek + Horizon) /\ Tick(stopOk)
    \/ DismissedOk
    \/ \E writeOk \in BOOLEAN : TimeoutOk(writeOk)

SpecSession == InitSession /\ [][NextSession]_vars

\* The event loop runs every callback that is due: the countdown interval and
\* the marker's timer.
SpecSessionFair ==
    /\ SpecSession
    /\ WF_vars(\E stopOk \in BOOLEAN : session.timerOn /\ Tick(stopOk))
    /\ WF_vars(\E timer \in ttlTimers : MarkerExpires(timer))

(***************************************************************************)
(* The timing view.  One alarm was stored in the first week for Sunday     *)
(* 07:00:00 and has fired since; the app comes to the foreground at one of *)
(* the instants below, on the Monday after or on the next Sunday, with the *)
(* notification of the latest firing in the tray, and the user taps it.    *)
(***************************************************************************)
SevenOClock == 7 * SecondsPerHour
TimingMinutes == {415, 418, 419, 420, 421, 422, 430}
TimingInstants ==
    {day * SecondsPerDay + minute * SecondsPerMinute + second :
        day \in {1, 7}, minute \in TimingMinutes, second \in {0, 30}}
\* The latest instant up to t at which a repeating trigger for 07:00 fired.
LastOccurrence(frequency, t) ==
    LET today == getDay(t) * SecondsPerDay + (t \div (7 * SecondsPerDay)) * 7 * SecondsPerDay
                   + SevenOClock
        latestDay == IF today <= t THEN today ELSE today - SecondsPerDay
    IN IF frequency = "daily" THEN latestDay
       ELSE IF t >= 7 * SecondsPerDay + SevenOClock
            THEN 7 * SecondsPerDay + SevenOClock
            ELSE SevenOClock
TimingAlarm(frequency) ==
    [id |-> 0, time |-> SevenOClock, frequency |-> frequency, duration |-> 1,
     isActive |-> TRUE, notificationId |-> 1]

InitTiming ==
    /\ now \in TimingInstants
    /\ \E frequency \in Frequencies :
          /\ alarms = <<TimingAlarm(frequency)>>
          /\ scheduled =
               IF frequency = "once" THEN {}
               ELSE {[handle |-> 1, alarmId |-> 0, duration |-> 1,
                      trigger |-> Trigger(TimingAlarm(frequency), 0),
                      lastFired |-> LastOccurrence(frequency, now)]}
    /\ delivered = {0}
    /\ codes = EmptyCodes
    /\ nextHandle = 2
    /\ ringtones = {}
    /\ alert = "none"
    /\ calls = <<>>
    /\ navigationInFlight = {}
    /\ ttlTimers = {}
    /\ awaiting = <<>>
    /\ events = 0
    /\ navigations = <<>>
    /\ session = Unmounted

NextTiming ==
    \/ \E alarmId \in AlarmIds : SwitchAlarm(alarmId, "none")
    \/ \E alarmId \in delivered : NotificationResponse(alarmId)
    \/ \E k \in 1..Len(awaiting), readOk \in BOOLEAN : FinishValidation(k, readOk)
    \/ initializeAlarmDismissal(generateDismissalCode(CodeA, now), "none")

SpecTiming == InitTiming /\ [][NextTiming]_vars

(***************************************************************************)
(* The code view.  A 15-minute alarm has fired at its time; the session is *)
(* either just mounted, with nothing or an expired record of an earlier    *)
(* session in '@dismissal_codes', or has been ringing for 598 seconds with *)
(* the code it generated at its start.  The view follows the code: issue,  *)
(* regeneration, submission and the passing of its expiry.                 *)
(***************************************************************************)
LongDuration == 15
NearExpiry == CodeLifetime - 2
LongAlarm(frequency) == [StoredAlarm(frequency) EXCEPT !.duration = LongDuration]
\* The record an earlier session stored for the alarm in the first week.
OldRecord ==
    [code |-> CodeB, timestamp |-> 0, expiresAt |-> CodeLifetime, createdAt |-> 0,
     attempts |-> 1]
\* The record the session stored at its start.
SessionRecordAtStart ==
    [code |-> CodeA, timestamp |-> SecondWeek, expiresAt |-> SecondWeek + CodeLifetime,
     createdAt |-> SecondWeek, attempts |-> 0]

InitCode ==
    /\ \E frequency \in Frequencies :
          /\ alarms = <<LongAlarm(frequency)>>
          /\ scheduled = IF frequency = "once" THEN {}
                         ELSE {[StoredSchedule(frequency) EXCEPT
                                    !.lastFired = SecondWeek,
                                    !.duration = LongDuration]}
    /\ delivered = {0}
    /\ nextHandle = 2
    /\ ringtones = {}
    /\ alert = "none"
    /\ calls = <<>>
    /\ awaiting = <<>>
    /\ events = 1
    /\ navigations = <<[alarmId |-> 0, at |-> SecondWeek, via |-> "received",
                        found |-> "unmounted", foundId |-> -1]>>
    /\ \/ /\ now = SecondWeek
          /\ codes \in {EmptyCodes, [i \in {0} |-> OldRecord]}
          /\ navigationInFlight = {0}
          /\ ttlTimers = {[alarmId |-> 0, due |-> now + NavigationTTL]}
          /\ session = [Unmounted EXCEPT !.phase = "initializing", !.alarmId = 0]
       \/ /\ now = SecondWeek + NearExpiry
          /\ codes = [i \in {0} |-> SessionRecordAtStart]
          /\ navigationInFlight = {}
          /\ ttlTimers = {}
          /\ session =
               [Unmounted EXCEPT
                  !.phase = "ringing", !.alarmId = 0, !.alarm = alarms[1],
                  !.dismissalCodeData =
                      [code |-> CodeA, timestamp |-> SecondWeek,
                       expiresAt |-> SecondWeek + CodeLifetime],
                  !.timeRemaining = LongDuration * SecondsPerMinute - NearExpiry,
                  !.timerOn = TRUE, !.audioOn = TRUE, !.vibrationOn = TRUE,
                  !.elapsed = NearExpiry]

NextCode ==
    \/ \E later \in now..(now + MaxReadGap) :
          initializeAlarmDismissal(generateDismissalCode(CodeA, later), "none")
    \/ \E later \in now..(now + MaxReadGap) :
          regenerateCode(generateDismissalCode(CodeB, later), "none")
    \/ \E userInput \in GeneratedCodes : handleSubmit(userInput, "none")
    \/ /\ now >= SecondWeek + NearExpiry
       /\ now < SecondWeek + NearExpiry + Horizon
       /\ Tick(TRUE)
    \/ DismissedOk

SpecCode == InitCode /\ [][NextCode]_vars

(***************************************************************************)
(* The generator view.  A session has just been mounted; its code, and     *)
(* every code the 'Generate New Code' button fetches, comes from           *)
(* generateSecureCode run on the inputs below, and the user submits either *)
(* the displayed code or another text.                                     *)
(***************************************************************************)
\* Character codes found in timestamp + random1 + random2: '.', '0', '9',
\* 'a', 'z'.
EntropyCodes == {46, 48, 57, 97, 122}
Entropies == {[i \in 1..13 |-> c] : c \in EntropyCodes}
\* Runs of Math.floor(Math.random() * 36): constant, rising by 1, rising by 7.
RandomIndexRuns ==
    {[i \in 1..CodeLength |-> (first + (i - 1) * stride) % Len(Characters)] :
        first \in {0, 17, 35}, stride \in {0, 1, 7}}
LocalCodes == {generateSecureCode(entropy, randomIndices) :
                  entropy \in Entropies, randomIndices \in RandomIndexRuns}
\* Parsed bodies of the backend's answer, and a failed request.
BackendResponses ==
    {[ok |-> ok, code |-> code, expiresAt |-> expiresAt] :
        ok \in BOOLEAN,
        code \in {<<>>, CodeA, SubSeq(CodeA, 1, 7), CodeA \o <<"1">>,
                  <<"a", "b", "a", "b", "1", "2", "1", "2">>,
                  <<"A", "B", "A", "B", "-", "2", "1", "2">>},
        expiresAt \in {0, SecondWeek + CodeLifetime}}

NextGenerate ==
    \/ \E code \in LocalCodes :
          initializeAlarmDismissal(generateDismissalCode(code, now), "none")
    \/ \E code \in LocalCodes :
          regenerateCode(generateDismissalCode(code, now), "none")
    \/ \E userInput \in {session.dismissalCodeData.code, CodeA} :
          handleSubmit(userInput, "none")
    \/ DismissedOk

SpecGenerate == InitSession /\ [][NextGenerate]_vars

(***************************************************************************)
(* The deletion view.  Alarms are created with or without a custom         *)
(* ringtone, ring, are dismissed, and are deleted from the list; every     *)
(* fault of deleteAlarm and of handleSubmit is covered, creation and the   *)
(* session's start are fault-free.                                         *)
(***************************************************************************)
NextDelete ==
    \/ \E data \in OneMinuteForms : saveAlarm(data, "none")
    \/ \E alarmId \in AlarmIds, fault \in DeleteFaults : PressDelete(alarmId, fault)
    \/ \E alarmId \in AlarmIds : AlarmRings(alarmId)
    \/ initializeAlarmDismissal(generateDismissalCode(CodeA, now), "none")
    \/ \E fault \in SubmitFaults : handleSubmit(CodeA, fault)
    \/ now < MaxNow /\ Tick(TRUE)
    \/ DismissedOk

SpecDelete == Init /\ [][NextDelete]_vars

(***************************************************************************)
(* The scheduling view.  Alarms are created and switched on and off with   *)
(* every fault of addAlarm and toggleAlarm, and deleted without a fault;   *)
(* no alarm rings.                                                         *)
(***************************************************************************)
NextSchedule ==
    \/ \E data \in PlainForms, fault \in AddFaults : saveAlarm(data, fault)
    \/ \E alarmId \in AlarmIds, fault \in ToggleFaults : SwitchAlarm(alarmId, fault)
    \/ \E alarmId \in AlarmIds : PressDelete(alarmId, "none")
    \/ now < MaxNow /\ Tick(TRUE)

SpecSchedule == Init /\ [][NextSchedule]_vars

(***************************************************************************)
(* The form view.  Daily alarms are created from every text of the label   *)
(* and duration fields, with every fault of addAlarm, and deleted.         *)
(***************************************************************************)
NextForm ==
    \/ \E data \in DailyForms, fault \in AddFaults : saveAlarm(data, fault)
    \/ \E alarmId \in AlarmIds : PressDelete(alarmId, "none")
    \/ now < MaxNow /\ Tick(TRUE)

SpecForm == Init /\ [][NextForm]_vars

(***************************************************************************)
(* The marker view.  It is the listener view with validateAlarmTiming      *)
(* also failing on its read, and with the clock running on past the        *)
(* horizon for as long as a TTL timer is pending.                          *)
(***************************************************************************)
NextMarker ==
    \/ \E alarmId \in AlarmIds : SwitchAlarm(alarmId, "none")
    \/ \E s \in scheduled : NotificationReceived(s)
    \/ \E alarmId \in delivered : NotificationResponse(alarmId)
    \/ \E k \in 1..Len(awaiting), readOk \in BOOLEAN : FinishValidation(k, readOk)
    \/ \E timer \in ttlTimers : MarkerExpires(timer)
    \/ initializeAlarmDismissal(generateDismissalCode(CodeA, now), "none")
    \/ (now < SecondWeek + Horizon \/ ttlTimers # {}) /\ Tick(TRUE)

SpecMarker == InitListen /\ [][NextMarker]_vars

\* The event loop resumes every suspended callback, runs every timer that is
\* due and mounts the screen it navigated to; the clock does not stop.
SpecMarkerFair ==
    /\ SpecMarker
    /\ WF_vars(\E k \in 1..Len(awaiting), readOk \in BOOLEAN : FinishValidation(k, readOk))
    /\ WF_vars(\E timer \in ttlTimers : MarkerExpires(timer))
    /\ WF_vars(initializeAlarmDismissal(generateDismissalCode(CodeA, now), "none"))
    /\ WF_vars(ttlTimers # {} /\ Tick(TRUE))

(***************************************************************************)
(* The agreement view.  One alarm of any frequency, set for a Sunday or a  *)
(* Saturday at midnight, a minute after it, 07:00:30 or 23:59, was created *)
(* and scheduled either at clock reading 1 or one second after its time;   *)
(* the view starts at one of the instants below, the platform fires the    *)
(* schedule when it is due, and the received listener handles the firing.  *)
(***************************************************************************)
AgreeTimesOfDay ==
    {0, SecondsPerMinute, 7 * SecondsPerHour + 30, 23 * SecondsPerHour + 59 * SecondsPerMinute}
AgreeTimes == {day * SecondsPerDay + timeOfDay : day \in {0, 6}, timeOfDay \in AgreeTimesOfDay}
AgreeInstants ==
    {day * SecondsPerDay + timeOfDay :
        day \in {0, 1, 6, 7, 13},
        timeOfDay \in AgreeTimesOfDay \cup {7 * SecondsPerHour}}
AgreeAlarm(frequency, time, created) ==
    [id |-> created, time |-> time, frequency |-> frequency, duration |-> 1,
     isActive |-> TRUE, notificationId |-> 1]

InitAgree ==
    /\ \E frequency \in Frequencies, time \in AgreeTimes, afterItsTime \in BOOLEAN :
          LET created == IF afterItsTime THEN time + 1 ELSE 1 IN
          /\ alarms = <<AgreeAlarm(frequency, time, created)>>
          /\ scheduled = {[handle |-> 1, alarmId |-> created, duration |-> 1,
                           trigger |-> Trigger(AgreeAlarm(frequency, time, created),
                                               created),
                           lastFired |-> -1]}
          /\ now \in AgreeInstants
          /\ now >= created
    /\ delivered = {}
    /\ codes = EmptyCodes
    /\ nextHandle = 2
    /\ ringtones = {}
    /\ alert = "none"
    /\ calls = <<>>
    /\ navigationInFlight = {}
    /\ ttlTimers = {}
    /\ awaiting = <<>>
    /\ events = 0
    /\ navigations = <<>>
    /\ session = Unmounted

NextAgree ==
    \/ \E s \in scheduled : NotificationReceived(s)
    \/ \E k \in 1..Len(awaiting) : FinishValidation(k, TRUE)
    \/ initializeAlarmDismissal(generateDismissalCode(CodeA, now), "none")

SpecAgree == InitAgree /\ [][NextAgree]_vars

(***************************************************************************)
(* AlarmStorage calls, one await at a time.  The actions above run a       *)
(* storage operation to completion; here an operation is a call that       *)
(* suspends at each await (load, platform scheduler, save), so that a      *)
(* second call can start and run between two steps of the first.  Every    *)
(* storage and platform call succeeds.                                     *)
(***************************************************************************)
\* A call: the operation, its argument, the await it is suspended at, and
\* its local variables (the array loadAlarms returned, the object
\* loadDismissalCodes returned, the codeData handed to saveDismissalCode).
Call(op, alarmId, codeData) ==
    [op |-> op, alarmId |-> alarmId, pc |-> "load", loaded |-> <<>>,
     blob |-> EmptyCodes, codeData |-> codeData]
Pending(k) == calls[k].pc # "done"
AllReturned == \A k \in 1..Len(calls) : ~Pending(k)
CallFrame ==
    UNCHANGED <<now, ringtones, alert, delivered, navigationInFlight, ttlTimers,
                awaiting, events, navigations>>

\* AlarmListScreen: a switch or a confirmed delete calls the repository; the
\* screen disables nothing while an earlier call is running.
ListOps == {"toggleAlarm", "deleteAlarm"}
BeginListCall(op, alarmId) ==
    /\ session.phase = "unmounted"
    /\ Len(calls) < MaxCalls
    /\ calls' = Append(calls, Call(op, alarmId, NoCode))
    /\ UNCHANGED <<alarms, codes, scheduled, nextHandle, session>>
    /\ CallFrame

\* const alarms = await this.loadAlarms(); a toggle of an id that is not in
\* the list returns without a write.
AlarmsLoaded(k) ==
    LET c == calls[k]
    IN /\ c.op \in ListOps
       /\ c.pc = "load"
       /\ calls' = [calls EXCEPT
                       ![k].loaded = alarms,
                       ![k].pc = IF c.op = "toggleAlarm" /\ IndexOf(alarms, c.alarmId) = 0
                                 THEN "done" ELSE "platform"]
       /\ UNCHANGED <<alarms, codes, scheduled, nextHandle, session>>
       /\ CallFrame

\* await scheduleAlarm / cancelAlarm, and the assignments to the found
\* record, which is an element of the call's own array; deleteAlarm also
\* awaits removeDismissalCode here.
PlatformAnswered(k) ==
    LET c == calls[k]
        i == IndexOf(c.loaded, c.alarmId)
        found == c.loaded[i]
    IN /\ c.op \in ListOps
       /\ c.pc = "platform"
       /\ IF c.op = "deleteAlarm"
          THEN /\ scheduled' = IF i = 0 THEN scheduled
                               ELSE Cancelled(scheduled, found.notificationId)
               /\ codes' = removeDismissalCode(codes, c.alarmId, TRUE, TRUE)
               /\ calls' = [calls EXCEPT ![k].pc = "save"]
               /\ UNCHANGED nextHandle
          ELSE IF ~found.isActive
          THEN /\ scheduled' = scheduled \cup
                      {NewSchedule([found EXCEPT !.isActive = TRUE])}
               /\ nextHandle' = nextHandle + 1
               /\ calls' = [calls EXCEPT ![k].pc = "save",
                                        ![k].loaded[i].notificationId = nextHandle,
                                        ![k].loaded[i].isActive = TRUE]
               /\ UNCHANGED codes
          ELSE /\ scheduled' = Cancelled(scheduled, found.notificationId)
               /\ calls' = [calls EXCEPT ![k].pc = "save",
                                        ![k].loaded[i].notificationId = NoHandle,
                                        ![k].loaded[i].isActive = FALSE]
               /\ UNCHANGED <<codes, nextHandle>>
       /\ UNCHANGED <<alarms, session>>
       /\ CallFrame

\* await this.saveAlarms(alarms) / saveAlarms(filteredAlarms)
AlarmsSaved(k) ==
    LET c == calls[k]
    IN /\ c.op \in ListOps
       /\ c.pc = "save"
       /\ alarms' = IF c.op = "deleteAlarm" THEN Without(c.loaded, c.alarmId)
                    ELSE c.loaded
       /\ calls' = [calls EXCEPT ![k].pc = "done"]
       /\ UNCHANGED <<codes, scheduled, nextHandle, session>>
       /\ CallFrame

\* The list screen with two daily alarms, both active and scheduled.
InterleaveAlarms ==
    << [id |-> 0, time |-> 0, frequency |-> "daily", duration |-> 1,
        isActive |-> TRUE, notificationId |-> 1],
       [id |-> 1, time |-> SecondsPerHour, frequency |-> "daily", duration |-> 1,
        isActive |-> TRUE, notificationId |-> 2] >>
InterleaveSchedules ==
    {[handle |-> InterleaveAlarms[i].notificationId, alarmId |-> InterleaveAlarms[i].id,
      duration |-> 1, trigger |-> Trigger(InterleaveAlarms[i], 0), lastFired |-> -1] :
        i \in 1..2}
InitInterleave ==
    /\ now = 2
    /\ alarms = InterleaveAlarms
    /\ scheduled = InterleaveSchedules
    /\ nextHandle = 3
    /\ codes = EmptyCodes
    /\ ringtones = {}
    /\ alert = "none"
    /\ calls = <<>>
    /\ delivered = {}
    /\ navigationInFlight = {}
    /\ ttlTimers = {}
    /\ awaiting = <<>>
    /\ events = 0
    /\ navigations = <<>>
    /\ session = Unmounted

NextInterleave ==
    \/ \E op \in ListOps, alarmId \in {0, 1} : BeginListCall(op, alarmId)
    \/ \E k \in 1..Len(calls) : AlarmsLoaded(k)
    \/ \E k \in 1..Len(calls) : PlatformAnswered(k)
    \/ \E k \in 1..Len(calls) : AlarmsSaved(k)

SpecInterleave == InitInterleave /\ [][NextInterleave]_vars

\* DismissAlarmScreen: the submit button is disabled while a code is being
\* generated, not while an earlier submission is running; the regenerate
\* button is disabled only while a code is being generated.
isGeneratingCode ==
    \E k \in 1..Len(calls) : calls[k].op = "saveDismissalCode" /\ Pending(k)
CodeOps == {"incrementCodeAttempts", "saveDismissalCode"}
\* handleSubmit, up to its first await.
BeginSubmit ==
    /\ session.phase = "ringing"
    /\ ~isGeneratingCode
    /\ Len(calls) < MaxCalls
    /\ calls' = Append(calls, Call("incrementCodeAttempts", session.alarmId, NoCode))
    /\ UNCHANGED <<alarms, codes, scheduled, nextHandle, session>>
    /\ CallFrame
\* regenerateCode, up to the first await of saveDismissalCode.
BeginRegenerate(generated) ==
    /\ session.phase = "ringing"
    /\ ~isGeneratingCode
    /\ generated.code # session.dismissalCodeData.code
    /\ Len(calls) < MaxCalls
    /\ calls' = Append(calls, Call("saveDismissalCode", session.alarmId, generated))
    /\ UNCHANGED <<alarms, codes, scheduled, nextHandle, session>>
    /\ CallFrame

\* const codes = await this.loadDismissalCodes(); incrementCodeAttempts
\* returns 0 when the alarm has no record, and handleSubmit goes on to
\* compare a wrong text.
CodesLoaded(k) ==
    LET c == calls[k]
        absent == c.op = "incrementCodeAttempts" /\ c.alarmId \notin DOMAIN codes
    IN /\ c.op \in CodeOps
       /\ c.pc = "load"
       /\ calls' = [calls EXCEPT ![k].blob = codes,
                                ![k].pc = IF absent THEN "done" ELSE "save"]
       /\ session' = IF absent
                     THEN [session EXCEPT !.attempts = 0, !.submitted = "mismatch"]
                     ELSE session
       /\ UNCHANGED <<alarms, codes, scheduled, nextHandle>>
       /\ CallFrame

\* await AsyncStorage.setItem(DISMISSAL_CODES_KEY, JSON.stringify(codes)) of
\* the call's own object, and the caller's state updates that follow:
\* setAttempts(newAttempts) of a wrong submission, setDismissalCodeData and
\* setAttempts(0) of a regeneration.
CodesSaved(k) ==
    LET c == calls[k]
        newAttempts == c.blob[c.alarmId].attempts + 1
    IN /\ c.op \in CodeOps
       /\ c.pc = "save"
       /\ calls' = [calls EXCEPT ![k].pc = "done"]
       /\ IF c.op = "incrementCodeAttempts"
          THEN /\ codes' = [c.blob EXCEPT ![c.alarmId].attempts = newAttempts]
               /\ session' = [session EXCEPT !.attempts = newAttempts,
                                             !.submitted = "mismatch"]
          ELSE /\ codes' = [i \in DOMAIN c.blob \cup {c.alarmId} |->
                              IF i = c.alarmId
                              THEN [code |-> c.codeData.code,
                                    timestamp |-> c.codeData.timestamp,
                                    expiresAt |-> c.codeData.expiresAt,
                                    createdAt |-> now, attempts |-> 0]
                              ELSE c.blob[i]]
               /\ session' = [session EXCEPT !.dismissalCodeData = c.codeData,
                                             !.attempts = 0]
       /\ UNCHANGED <<alarms, scheduled, nextHandle>>
       /\ CallFrame

NextSubmits ==
    \/ \E generated \in GeneratedCodes :
          initializeAlarmDismissal(generateDismissalCode(generated, now), "none")
    \/ BeginSubmit
    \/ \E generated \in GeneratedCodes :
          BeginRegenerate(generateDismissalCode(generated, now))
    \/ \E k \in 1..Len(calls) : CodesLoaded(k)
    \/ \E k \in 1..Len(calls) : CodesSaved(k)

SpecSubmits == InitSession /\ [][NextSubmits]_vars

(***************************************************************************)
(* Properties.                                                             *)
(***************************************************************************)
\* The stored record of the session's alarm, and the frequency of the alarm
\* the session is for (from the record the session loaded, or from storage).
SessionRecord == Find(alarms, session.alarmId)
SessionFrequencies == {session.alarm.frequency, SessionRecord.frequency}
\* The schedule handle the session's alarm held when it fired.
HandleAtFiring == StoredAlarm("once").notificationId

\* C1. After five wrong submissions against the same code (stored attempts
\* = 5) the session still rings, and the next submission whose trimmed,
\* uppercased text equals the code moves it to Success: a matching
\* submission counted as attempt 6 leaves the session in "success".
C1_SixthSubmissionOfCodeSucceeds ==
    (session.submitted = "match" /\ session.attempts = AttemptLimit + 1)
        => session.phase = "success"

\* C2. Every stored alarm record has isActive true exactly when its
\* notificationId is non-null, whatever sequence of add, toggle, delete and
\* session outcome, failing partway or not, produced it.
C2_ActiveIffHandle ==
    \A i \in 1..Len(alarms) :
        alarms[i].isActive <=> alarms[i].notificationId # NoHandle

\* A session has succeeded for a one-time alarm, whose record is now inactive
\* with no handle.
C2_Witness ==
    /\ session.phase = "success"
    /\ session.alarm.frequency = "once"
    /\ SessionRecord # NoAlarm
    /\ ~SessionRecord.isActive
    /\ SessionRecord.notificationId = NoHandle

\* C3. A second received or tapped event for an alarm whose session is in
\* flight is suppressed, also after the 5-second marker has expired: no
\* navigation to DismissAlarm is made for an alarm while the dismissal screen
\* is mounted for that alarm and not yet ended.
C3_SecondTriggerSuppressed ==
    \A i \in 1..Len(navigations) :
        ~ /\ navigations[i].found \in {"initializing", "ringing"}
          /\ navigations[i].foundId = navigations[i].alarmId

\* C4. A received and a tapped event for the same alarm within one second of
\* each other, with both listener pairs registered, lead to at most one
\* navigation to DismissAlarm.
C4_OneNavigationPerFiring ==
    \A i \in 1..Len(navigations) : \A j \in 1..Len(navigations) :
        ~ /\ i < j
          /\ navigations[i].alarmId = navigations[j].alarmId
          /\ navigations[i].via # navigations[j].via
          /\ navigations[j].at - navigations[i].at <= 1

\* C5. No dismissal session is started for a firing whose alarm record is
\* missing or inactive at validation time: every step that navigates to
\* DismissAlarm finds the alarm stored and active.
C5_NoSessionForInactiveAlarm ==
    [][Len(navigations') > Len(navigations)
          => LET alarm == Find(alarms, navigations'[Len(navigations')].alarmId)
             IN alarm # NoAlarm /\ alarm.isActive]_vars

\* An event was handled at the alarm's time or later, when every stored
\* alarm (if any is left) was inactive, and nothing was navigated to.
C5_Witness ==
    /\ now >= SecondWeek
    /\ \E timer \in ttlTimers : timer.due >= SecondWeek + NavigationTTL
    /\ awaiting = <<>>
    /\ \A i \in 1..Len(alarms) : ~alarms[i].isActive
    /\ navigations = <<>>
    /\ session.phase = "unmounted"

\* C6. When the countdown of a session for a one-time alarm reaches 0 with no
\* submission, the alarm record is inactive with a null notificationId and
\* its schedule is no longer pending.
C6_OnceTimeoutDeactivates ==
    (/\ session.phase = "timedout"
     /\ session.submitted = "none"
     /\ "once" \in SessionFrequencies)
        => /\ SessionRecord # NoAlarm
           /\ ~SessionRecord.isActive
           /\ SessionRecord.notificationId = NoHandle
           /\ HandleAtFiring \notin PendingHandles

\* C7. When a session for a one-time alarm ends in Success, the alarm record
\* is still stored, inactive and with a null notificationId, and its schedule
\* is no longer pending.
C7_OnceSuccessDeactivates ==
    (session.phase = "success" /\ "once" \in SessionFrequencies)
        => /\ SessionRecord # NoAlarm
           /\ ~SessionRecord.isActive
           /\ SessionRecord.notificationId = NoHandle
           /\ HandleAtFiring \notin PendingHandles

\* C8. When a session for a daily or weekly alarm ends in Success or
\* TimedOut, the schedule it fired from is cancelled and a new one is
\* pending, whose handle the still active record holds.
C8_RecurringRescheduled ==
    (/\ session.phase \in {"success", "timedout"}
     /\ SessionFrequencies \cap {"daily", "weekly"} # {})
        => /\ SessionRecord # NoAlarm
           /\ SessionRecord.isActive
           /\ SessionRecord.notificationId # NoHandle
           /\ SessionRecord.notificationId \in PendingHandles
           /\ HandleAtFiring \notin PendingHandles

\* C9. Once the session is in Success or TimedOut, no dismissal code record
\* of its alarm is left in storage.
C9_TerminalSessionHasNoCode ==
    session.phase \in {"success", "timedout"}
        => session.alarmId \notin DOMAIN codes

\* The seconds the countdown starts from: (alarmData.duration || 5) * 60 when
\* the alarm record was loaded, the initial state 300 otherwise.
StartSeconds ==
    IF session.alarm = NoAlarm THEN DefaultTimeRemaining
    ELSE (IF session.alarm.duration = 0 THEN DefaultDuration
          ELSE session.alarm.duration) * SecondsPerMinute

SpecifiedTolerance == 2
\* A handler has finished validating the one tapped event at this instant
\* without navigating.
TapIgnored ==
    /\ events = 1
    /\ awaiting = <<>>
    /\ navigations = <<>>

\* C11. For an active daily or weekly alarm validateAlarmTiming answers due
\* exactly when the minutes of day of now and of alarm.time differ by at most
\* the tolerance (and, for weekly, the weekdays are equal), the tolerance
\* being the one for which 06:58 is due for a 07:00 alarm and 06:55 is not.
C11_DueWithinTolerance ==
    \A i \in 1..Len(alarms) :
        (alarms[i].isActive /\ alarms[i].frequency \in {"daily", "weekly"})
            => (validateAlarmTiming(alarms[i].id, now, TRUE)
                  <=> /\ Abs(minutesOfDay(now) - minutesOfDay(alarms[i].time))
                          <= SpecifiedTolerance
                      /\ (alarms[i].frequency = "weekly"
                            => getDay(now) = getDay(alarms[i].time)))

\* C12. For an active one-time alarm validateAlarmTiming answers due exactly
\* when now is within the tolerance of alarm.time.
C12_OnceDueOnlyNearItsTime ==
    \A i \in 1..Len(alarms) :
        (alarms[i].isActive /\ alarms[i].frequency = "once")
            => (validateAlarmTiming(alarms[i].id, now, TRUE)
                  <=> Abs(now - alarms[i].time)
                          <= SpecifiedTolerance * SecondsPerMinute)

\* C13. When the read of the alarm record fails inside the validation, the
\* answer is not due, and every navigation to DismissAlarm is for an alarm
\* that a successful read finds stored, active and due.
C13_FailClosed ==
    /\ [](\A i \in 1..Len(alarms) : ~validateAlarmTiming(alarms[i].id, now, FALSE))
    /\ [][Len(navigations') > Len(navigations)
            => validateAlarmTiming(navigations'[Len(navigations')].alarmId, now, TRUE)]_vars

\* The tap of a notification whose alarm is stored, active and due was
\* ignored: the read inside its validation failed.
C13_Witness ==
    /\ TapIgnored
    /\ session.phase = "unmounted"
    /\ \E i \in 1..Len(alarms) : validateAlarmTiming(alarms[i].id, now, TRUE)

\* C14. Whenever a one-time alarm is scheduled, whatever the age of its
\* time, the date handed to the platform is strictly later than now.
C14_OnceScheduledInTheFuture ==
    [][\A s \in scheduled' \ scheduled :
          s.trigger.kind = "date" => s.trigger.date > now]_vars

\* The steps of the timing view that run toggleAlarm to completion.
ToggleStep == alarms' # alarms \/ scheduled' # scheduled \/ nextHandle' # nextHandle

C16_ExpiresTenMinutesAfterIssue ==
    \A alarmId \in DOMAIN codes :
        codes[alarmId].expiresAt = codes[alarmId].timestamp + CodeLifetime

\* C18. A submission produces Success only while the code it matches has
\* not expired: an expired code is regenerated before it can be accepted.
C18_ExpiredCodeNeverAccepted ==
    [][(session.phase # "success" /\ session'.phase = "success")
          => ~isCodeExpired(session.dismissalCodeData, now)]_vars

\* C17. Every code of the local generator has exactly 8 characters of
\* A-Z0-9 and passes isValidCode, so do the codes a session displays and
\* stores, and whatever generateCodeWithBackend returns, from the backend or
\* from the fallback, passes isValidCode.
C17_GeneratedCodesAreValid ==
    /\ \A code \in LocalCodes :
          /\ Len(code) = CodeLength
          /\ \A i \in 1..Len(code) : \E k \in 1..Len(Characters) : code[i] = Characters[k]
          /\ isValidCode(code)
          /\ \A response \in BackendResponses :
                isValidCode(generateCodeWithBackend(
                                response, generateDismissalCode(code, now)).code)
    /\ session.dismissalCodeData # NoCode => isValidCode(session.dismissalCodeData.code)
    /\ \A alarmId \in DOMAIN codes : isValidCode(codes[alarmId].code)

\* The session displays the code generated from entropy of 'z' characters
\* and random indices 35, 6, 13, ...: every index wraps round the alphabet.
C17_Witness ==
    /\ session.phase = "ringing"
    /\ session.dismissalCodeData.code =
          generateSecureCode([i \in 1..13 |-> 122],
                             [i \in 1..CodeLength |-> (35 + (i - 1) * 7) % Len(Characters)])
    /\ 0 \in DOMAIN codes
    /\ codes[0].code = session.dismissalCodeData.code

\* The steps in which handleSubmit ran and reached the comparison of the
\* typed text with the displayed code.
ComparedSubmission ==
    /\ now' = now
    /\ session.phase \in {"ringing", "error"}
    /\ session'.phase \in {"ringing", "error", "success"}
    /\ session' # session
    /\ session.dismissalCodeData # NoCode
    /\ session'.attempts <= AttemptLimit

\* C19. No submission is compared before its attempt is persisted: the
\* stored record of the alarm exists and the count handleSubmit goes on with
\* is the stored count plus one, which a wrong submission leaves in storage.
C19_AttemptPersistedBeforeComparison ==
    [][ComparedSubmission =>
          /\ session.alarmId \in DOMAIN codes
          /\ session'.attempts = codes[session.alarmId].attempts + 1
          /\ (session'.submitted = "mismatch" =>
                /\ session.alarmId \in DOMAIN codes'
                /\ codes'[session.alarmId].attempts = session'.attempts)]_vars

\* The steps in which handleSubmit ran on a Ringing session with a text that
\* differs from the displayed code.
WrongSubmission ==
    /\ now' = now
    /\ session.phase = "ringing"
    /\ session' # session
    /\ session'.phase # "unmounted"
    /\ session'.submitted = "mismatch"

\* C20. A wrong submission, whatever the number of attempts, leaves the
\* session Ringing with audio, vibration and countdown as they were; only a
\* matching code or the countdown reaching zero leaves Ringing.
C20_WrongSubmissionsKeepRinging ==
    /\ [][WrongSubmission =>
             /\ session'.phase = "ringing"
             /\ session'.audioOn = session.audioOn
             /\ session'.vibrationOn = session.vibrationOn
             /\ session'.timerOn = session.timerOn
             /\ session'.timeRemaining = session.timeRemaining]_vars
    /\ [][(session.phase = "ringing" /\ session'.phase # "ringing")
             => \/ now' = now /\ session'.submitted = "match"
                              /\ session'.phase = "success"
                \/ now' = now + 1 /\ session'.timeRemaining = 0
                                  /\ session'.phase = "timedout"]_vars

\* After six wrong submissions the session is still Ringing, with audio,
\* vibration and countdown running.
C20_Witness ==
    /\ session.phase = "ringing"
    /\ session.submitted = "mismatch"
    /\ session.attempts = AttemptLimit + 1
    /\ session.audioOn /\ session.vibrationOn /\ session.timerOn
    /\ session.timeRemaining > 0

\* C21. At most 5 submissions are compared against one code: a submission
\* is compared only while fewer than 5 attempts are stored for the code, and
\* each compared submission that does not dismiss the alarm adds one to the
\* stored count, so the sixth and later ones are rejected.
C21_AtMostFiveComparisonsPerCode ==
    [][ComparedSubmission =>
          /\ session.alarmId \in DOMAIN codes
          /\ codes[session.alarmId].attempts < AttemptLimit
          /\ (session'.phase # "success" /\ session.alarmId \in DOMAIN codes'
                => codes'[session.alarmId].attempts
                      > codes[session.alarmId].attempts)]_vars

\* The steps in which regenerateCode replaced the code of a Ringing session.
Regeneration ==
    /\ session.phase = "ringing"
    /\ session'.phase # "unmounted"
    /\ session'.dismissalCodeData # session.dismissalCodeData

\* C22. A regeneration during Ringing stores and displays the freshly
\* generated code with attempts 0 and leaves the session Ringing with the
\* countdown, the audio and the vibration as they were.
C22_RegenerationKeepsRinging ==
    [][Regeneration =>
          /\ session'.phase = "ringing"
          /\ session.alarmId \in DOMAIN codes'
          /\ codes'[session.alarmId].code = session'.dismissalCodeData.code
          /\ codes'[session.alarmId].timestamp = now
          /\ codes'[session.alarmId].attempts = 0
          /\ session'.attempts = 0
          /\ now' = now
          /\ session'.timeRemaining = session.timeRemaining
          /\ session'.timerOn = session.timerOn
          /\ session'.audioOn = session.audioOn
          /\ session'.vibrationOn = session.vibrationOn]_vars

\* The code was regenerated during Ringing, and a submission of the previous
\* code was then rejected as the first attempt on the new one.
C22_Witness ==
    /\ session.phase = "ringing"
    /\ session.dismissalCodeData.code = CodeB
    /\ session.dismissalCodeData.timestamp > SecondWeek
    /\ session.submitted = "mismatch"
    /\ session.attempts = 1
    /\ codes[0].code = CodeB
    /\ codes[0].attempts = 1
    /\ session.timerOn /\ session.audioOn /\ session.vibrationOn

\* The session has reported its outcome: the 'Alarm Dismissed' or the
\* 'Alarm Timeout' alert is showing.
OutcomeReported == session.phase \in {"success", "timedout"}

\* C23. Teardown releases the vibration independently of the audio: once the
\* session has reported its outcome the vibration is cancelled, also when
\* stopping the audio threw.
C23_VibrationReleasedAtTeardown ==
    OutcomeReported => ~session.vibrationOn

\* C24. When the session reports its outcome, audio, vibration and the
\* countdown interval have all been stopped, and none of them runs afterwards.
C24_StoppedBeforeOutcome ==
    OutcomeReported =>
        ~session.audioOn /\ ~session.vibrationOn /\ ~session.timerOn

\* C25. The session rings (Ringing, or audio, vibration or countdown
\* started) only with the alarm record and a code that was not expired when
\* it was loaded; otherwise it surfaces an error and starts nothing.
C25_RingingOnlyWhenLoaded ==
    (session.phase = "ringing" \/ session.audioOn \/ session.vibrationOn
        \/ session.timerOn)
        => /\ session.alarm # NoAlarm
           /\ session.dismissalCodeData # NoCode

\* The session rings without sound: the audio could not be started.
RingingSilently ==
    /\ session.phase = "ringing"
    /\ ~session.audioOn
    /\ session.vibrationOn
    /\ session.timerOn

\* C26. Whenever initializeAlarmDismissal has obtained the code, the session
\* enters Ringing with vibration and countdown running, whether or not the
\* audio could be started; a session ringing without sound still comes to
\* an end.
C26_AudioFailureIsNotFatal ==
    /\ [][(session.phase = "initializing" /\ session'.dismissalCodeData # NoCode)
             => /\ session'.phase = "ringing"
                /\ session'.vibrationOn
                /\ session'.timerOn
                /\ session'.timeRemaining > 0]_vars
    /\ (RingingSilently ~> session.phase # "ringing")

\* The session rings without sound and its countdown has advanced.
C26_Witness ==
    /\ RingingSilently
    /\ session.elapsed > 0
    /\ session.timeRemaining > 0

\* C27. A session that has left Initializing holds a code that passes the
\* format check: the generator, with its fallback, never leaves the caller
\* without one.
C27_LeavesInitializingWithCode ==
    session.phase \notin {"unmounted", "initializing"}
        => /\ session.dismissalCodeData # NoCode
           /\ isValidCode(session.dismissalCodeData.code)

\* C28. After deleteAlarm(id) completes successfully (the alarm's record has
\* left the stored list), nothing of the alarm is left: no pending schedule,
\* no DismissalCode record and no ringtone-override record for the id.
DeletionCompleted == Len(alarms') < Len(alarms)
DeletedIds == AlarmIds \ {alarms'[i].id : i \in 1..Len(alarms')}
C28_DeleteLeavesNothing ==
    [][DeletionCompleted =>
          \A alarmId \in DeletedIds :
             /\ \A s \in scheduled' : s.alarmId # alarmId
             /\ alarmId \notin DOMAIN codes'
             /\ alarmId \notin ringtones']_vars

\* C29. When the scheduler call fails during addAlarm or during toggleAlarm
\* turning an alarm on, the caller gets the error and the stored list is as
\* it was: a step of the list or create screen in which the platform issued
\* no handle, kept its schedules and after which the screen shows the error
\* leaves '@alarms' unchanged, and no step without a new handle
\* adds a record or turns an inactive record active or gives it a handle
\* (records are compared by position, which only a deletion changes).
NoScheduleMade == nextHandle' = nextHandle
C29_SchedulerFailureStoresNothing ==
    [][NoScheduleMade =>
          /\ (session.phase = "unmounted" /\ alert' = "Error"
                /\ scheduled' = scheduled) => alarms' = alarms
          /\ Len(alarms') <= Len(alarms)
          /\ \A i \in 1..Len(alarms) :
                Len(alarms') = Len(alarms) /\ ~alarms[i].isActive
                   => /\ ~alarms'[i].isActive
                      /\ alarms'[i].notificationId = NoHandle]_vars
\* The error is showing, one alarm is stored, switched off and without a
\* handle, and nothing is scheduled although the platform has issued a
\* handle before: the scheduler call of switching it on (or of a second
\* creation) has just failed.
C29_Witness ==
    /\ alert = "Error"
    /\ scheduled = {}
    /\ nextHandle = 2
    /\ Len(alarms) = 1
    /\ ~alarms[1].isActive
    /\ alarms[1].notificationId = NoHandle

\* C30. In every reachable state each schedule pending in the platform's
\* scheduler is the handle of exactly one stored, active alarm record: there
\* is no orphaned and no duplicate schedule, also after a failed save.
HoldersOf(handle) ==
    {i \in 1..Len(alarms) : alarms[i].isActive /\ alarms[i].notificationId = handle}
C30_EveryScheduleHasOneActiveAlarm ==
    \A s \in scheduled : Cardinality(HoldersOf(s.handle)) = 1

\* C40. A failed read of the alarm list never destroys stored alarms: every
\* step that rewrites '@alarms' either keeps each stored record's place (a
\* new record appended, a record updated) or removes exactly the records of
\* one id (a deletion); it never writes back a list that lacks other records.
C40_NoRecordLost ==
    [][\/ /\ Len(alarms') >= Len(alarms)
          /\ \A i \in 1..Len(alarms) : alarms'[i].id = alarms[i].id
       \/ \E alarmId \in AlarmIds : alarms' = Without(alarms, alarmId)]_vars

\* C33. Every in-flight marker is removed no later than the TTL of 5 seconds
\* after it was set, whatever validation answered: a marked alarm id always
\* has a TTL timer pending that is due within the next 5 seconds, no timer is
\* ever overdue, and a marked id eventually becomes unmarked.
MarkerHasTimer ==
    \A alarmId \in navigationInFlight :
       \E timer \in ttlTimers :
          /\ timer.alarmId = alarmId
          /\ timer.due <= now + NavigationTTL
C33_MarkerRemovedWithinTTL ==
    /\ [](MarkerHasTimer /\ \A timer \in ttlTimers : timer.due >= now)
    /\ \A alarmId \in {0} : (alarmId \in navigationInFlight)
                               ~> (alarmId \notin navigationInFlight)
\* The alarm fired on time and was navigated to, and exactly 5 seconds later
\* its marker and every timer are gone.
C33_Witness ==
    /\ navigations # <<>>
    /\ navigations[1].at = SecondWeek
    /\ now = SecondWeek + NavigationTTL
    /\ navigationInFlight = {}
    /\ ttlTimers = {}

\* C38. The marker of a firing that led to navigation stays set for its full
\* TTL: when a TTL timer removes the marker of an alarm whose validation has
\* finished, no younger timer of that alarm is still pending, i.e. the timer
\* that removes a marker is the one armed with it.
MarkerRemovedByTimer(alarmId) ==
    /\ ttlTimers' # ttlTimers
    /\ alarmId \in navigationInFlight
    /\ alarmId \notin navigationInFlight'
    /\ \A k \in 1..Len(awaiting) : awaiting[k].alarmId # alarmId
C38_MarkerOutlivesStaleTimer ==
    [][\A alarmId \in navigationInFlight :
          MarkerRemovedByTimer(alarmId)
             => \A timer \in ttlTimers' : timer.alarmId = alarmId => timer.due <= now]_vars

\* C34. Alarm ids are unique: no two stored alarm records share an id, also
\* after two addAlarm calls at the same clock reading.
C34_AlarmIdsUnique ==
    \A i, j \in 1..Len(alarms) : i # j => alarms[i].id # alarms[j].id

\* C35. The timeout transition is taken once per session: handleTimeout
\* (stopAlarm and the 'Alarm Timeout' alert) never runs a second time for the
\* mounted screen.
C35_TimeoutHandledOnce == session.timeoutReports <= 1

\* C36. Success and TimedOut are terminal and exclude each other: once the
\* session has reported Success the countdown does not report a timeout for
\* it, and once it has timed out no step reports Success or changes '@alarms'.
C36_TerminalOutcomesExclusive ==
    [][/\ (session.phase = "success" /\ session'.phase # "unmounted")
             => /\ session'.phase = "success"
                /\ session'.timeoutReports = session.timeoutReports
       /\ session.phase = "timedout"
             => /\ session'.phase \in {"timedout", "unmounted"}
                /\ alarms' = alarms]_vars

\* C39. Scheduler and validator agree: whenever the clock is exactly at the
\* date of a pending one-time trigger, or in the calendar slot (weekday, hour
\* and minute) of a pending repeating trigger, and the alarm of the schedule
\* is stored and active, validateAlarmTiming judges the alarm due; and the
\* firing the listener then handles navigates to the dismissal screen.
OnTime(s) == IF s.trigger.kind = "date" THEN now = s.trigger.date ELSE Due(s, now)
C39_OnTimeFiringIsDue ==
    /\ \A s \in scheduled :
          (OnTime(s) /\ Find(alarms, s.alarmId).isActive)
             => validateAlarmTiming(s.alarmId, now, TRUE)
    /\ \A k \in 1..Len(awaiting) : validateAlarmTiming(awaiting[k].alarmId, now, TRUE)
\* A weekly alarm set for a Saturday within the first minutes after midnight
\* has fired in its slot and its session is ringing.
C39_Witness ==
    /\ Len(alarms) = 1
    /\ alarms[1].frequency = "weekly"
    /\ getDay(alarms[1].time) = 6
    /\ minutesOfDay(alarms[1].time) = 1
    /\ Len(navigations) = 1
    /\ navigations[1].via = "received"
    /\ session.phase = "ringing"

RunAlone(st, c) ==
    LET i == IndexOf(st.alarms, c.alarmId)
        found == st.alarms[i]
    IN IF i = 0 THEN st
       ELSE IF c.op = "deleteAlarm"
       THEN [st EXCEPT !.alarms = Without(st.alarms, c.alarmId),
                       !.scheduled = Cancelled(st.scheduled, found.notificationId)]
       ELSE IF ~found.isActive
       THEN [alarms |-> [st.alarms EXCEPT ![i].notificationId = st.nextHandle,
                                          ![i].isActive = TRUE],
             scheduled |-> st.scheduled \cup
                 {[NewSchedule(found) EXCEPT !.handle = st.nextHandle]},
             nextHandle |-> st.nextHandle + 1]
       ELSE [st EXCEPT !.alarms = [st.alarms EXCEPT ![i].notificationId = NoHandle,
                                                    ![i].isActive = FALSE],
                       !.scheduled = Cancelled(st.scheduled, found.notificationId)]
RECURSIVE RunInOrder(_, _)
RunInOrder(st, order) ==
    IF order = <<>> THEN st
    ELSE RunInOrder(RunAlone(st, calls[Head(order)]), Tail(order))
Orders ==
    {order \in [1..Len(calls) -> 1..Len(calls)] :
        \A j, k \in 1..Len(calls) : order[j] = order[k] => j = k}
\* What the user can tell of a list and the scheduler: the records with
\* their switches, whether each record's handle names a pending schedule of
\* that alarm, and how many schedules are pending for each alarm.  Handle
\* numbers themselves are left out.
Outcome(list, pending) ==
    [stored |-> [i \in 1..Len(list) |->
                    [id |-> list[i].id, isActive |-> list[i].isActive,
                     scheduled |-> \E s \in pending :
                                      /\ s.handle = list[i].notificationId
                                      /\ s.alarmId = list[i].id]],
     pending |-> [alarmId \in {0, 1} |->
                    Cardinality({s \in pending : s.alarmId = alarmId})]]
InterleaveStart ==
    [alarms |-> InterleaveAlarms, scheduled |-> InterleaveSchedules, nextHandle |-> 3]
\* C31: when the repository calls that were started while others were still
\* running have all returned, the stored alarm list and the pending
\* schedules are those that running the same calls one after the other, in
\* some order, leaves.
C31_InterleavedCallsSerialize ==
    (calls # <<>> /\ AllReturned /\ \A k \in 1..Len(calls) : calls[k].op \in ListOps) =>
        \E order \in Orders :
            LET end == RunInOrder(InterleaveStart, order)
            IN Outcome(alarms, scheduled) = Outcome(end.alarms, end.scheduled)

(***************************************************************************)
(* C37.  Interleaved submissions and regenerations.                        *)
(***************************************************************************)
Submissions == {k \in 1..Len(calls) : calls[k].op = "incrementCodeAttempts"}
Regenerations == {k \in 1..Len(calls) : calls[k].op = "saveDismissalCode"}
\* C37: once the submissions of a session that stored its code with no
\* attempts have all returned, the stored counter equals their number when
\* no code was regenerated meanwhile; when one was, the stored record is the
\* code the screen shows, and it counts no more attempts than the
\* submissions that returned after the regeneration did.
C37_NoIncrementLost ==
    (session.phase = "ringing" /\ calls # <<>> /\ AllReturned
        /\ \A k \in 1..Len(calls) : calls[k].op \in CodeOps) =>
        /\ session.alarmId \in DOMAIN codes
        /\ Regenerations = {} =>
              codes[session.alarmId].attempts = Cardinality(Submissions)
        /\ Regenerations # {} =>
              /\ codes[session.alarmId].code = session.dismissalCodeData.code
              /\ codes[session.alarmId].attempts <= Cardinality(Submissions)

====
